---- MODULE Spec2Model ----
(***************************************************************************)
(* A model of pinin-rs: pinyin matching (IndexSet, Phoneme, Pinyin,        *)
(* Character), the memoising Accelerator, the PinIn context and the        *)
(* SimpleSearcher / TreeSearcher of src/src/searcher.rs.                    *)
(*                                                                         *)
(* Strings are sequences of one-character strings.  A Han character is an  *)
(* upper-case token ("CE" stands for the character read ce4); the string   *)
(* terminator '\0' of the Compressor is the token NUL.  All characters of  *)
(* the model are single grapheme clusters, so a grapheme count is a        *)
(* character count and a byte offset into an ASCII string is a character   *)
(* offset.  Indices of the source are 0-based; the model adds 1 where it   *)
(* indexes a TLA+ sequence.                                                *)
(***************************************************************************)
EXTENDS Integers, Sequences, FiniteSets, TLC

NUL == "NUL"

Range(f) == {f[i] : i \in DOMAIN f}

Min(a, b) == IF a < b THEN a ELSE b

\* the sequence f as an explicit tuple
Tup(f) == SubSeq(f, 1, Len(f))

\* the function f as an explicit table
Tab(f) == f @@ <<>>

\* Op applied to the value v: `let r = v; Op(r)`
With(v, Op(_)) == Op(v)

RECURSIVE Fill(_, _)
\* n times x
Fill(n, x) ==
    IF n <= 0 THEN <<>>
    ELSE IF n = 1 THEN <<x>>
    ELSE LET half == Fill(n \div 2, x)
         IN  IF n % 2 = 0 THEN half \o half ELSE (half \o half) \o <<x>>

StartsWith(s, p) == Len(p) <= Len(s) /\ SubSeq(s, 1, Len(p)) = p

EndsWith(s, p) == Len(p) <= Len(s) /\ SubSeq(s, Len(s) - Len(p) + 1, Len(s)) = p

\* s[i..] with a 0-based i
Suffix(s, i) == SubSeq(s, i + 1, Len(s))

\* str::contains on character sequences
StrContains(s, p) == \E i \in 0..Len(s) : StartsWith(Suffix(s, i), p)

\* str::trim().is_empty(): only white space
TrimIsEmpty(s) == \A i \in 1..Len(s) : s[i] = " "

(***************************************************************************)
(* 32-bit signed integers (the i32 behind IndexSet).                       *)
(***************************************************************************)
MinI32 == -2147483647 - 1

Pow2_30 == 1073741824

\* wrapping 2 * v
I32Double(v) ==
    IF v >= Pow2_30 THEN ((v - Pow2_30) - Pow2_30) * 2
    ELSE IF v < -Pow2_30 THEN ((v + Pow2_30) + Pow2_30) * 2
    ELSE 2 * v

RECURSIVE I32Shl(_, _)
\* v << n for 0 <= n < 32, wrapping
I32Shl(v, n) == IF n = 0 THEN v ELSE I32Shl(I32Double(v), n - 1)

RECURSIVE I32Shr(_, _)
\* v >> n, arithmetic
I32Shr(v, n) == IF n = 0 THEN v ELSE I32Shr(v \div 2, n - 1)

RECURSIVE I32Or(_, _)
I32Or(a, b) ==
    IF a = 0 THEN b
    ELSE IF b = 0 THEN a
    ELSE IF a = -1 \/ b = -1 THEN -1
    ELSE 2 * I32Or(a \div 2, b \div 2) + (IF a % 2 = 1 \/ b % 2 = 1 THEN 1 ELSE 0)

RECURSIVE I32And(_, _)
I32And(a, b) ==
    IF a = 0 \/ b = 0 THEN 0
    ELSE IF a = -1 THEN b
    ELSE IF b = -1 THEN a
    ELSE 2 * I32And(a \div 2, b \div 2) + (IF a % 2 = 1 /\ b % 2 = 1 THEN 1 ELSE 0)

(***************************************************************************)
(* IndexSet (src/src/compressed.rs).  An IndexSet is its i32 value.        *)
(***************************************************************************)
\* the width of an IndexSet value (value: i32): shift counts from here on
\* are out of range
WordBits == 32

IndexSetZero == 1

IndexSetOne == 2

IndexSetNone == 0

IndexSetNull == -1

\* The two builds of the crate: overflow checks on (debug) or off (release).
Builds == {"debug", "release"}

\* 0x1 << index on an i32 with a usize shift count: a count of 32 or more
\* panics when overflow checks are on and is masked to 5 bits otherwise.
ShlPanics(index, build) == index >= WordBits /\ build = "debug"

ShlOne(index) == I32Shl(1, index % WordBits)

IndexSetSet(value, index) == I32Or(value, ShlOne(index))

IndexSetGet(value, index) == I32And(value, ShlOne(index)) # 0

IndexSetOffset(value, i) == I32Shl(value, i % WordBits)

\* a merge that is the union for every receiver
MergeAsUnion(value, s) == I32Or(value, s)

IndexSetMerge(value, s) == IF value = 1 THEN s ELSE I32Or(value, s)

RECURSIVE ForEachFrom(_, _)
\* the indices IndexSet::for_each hands to its callback, in order, from
\* loop position i with the shifted value v
ForEachFrom(v, i) ==
    IF i >= 7 THEN <<>>
    ELSE IF v % 2 = 1 THEN <<i>> \o ForEachFrom(v \div 2, i + 1)
    ELSE IF v = 0 THEN <<>>
    ELSE ForEachFrom(v \div 2, i + 1)

IndexSetForEach(value) == ForEachFrom(value, 0)

\* the members for_each visits, as a set
IndexSetMembers(value) == Range(IndexSetForEach(value))

(***************************************************************************)
(* Keyboards and the syllable splitter (src/src/keyboard.rs).              *)
(***************************************************************************)
DAQIAN_KEYS ==
    <<>> :> <<>> @@
    <<"0">> :> <<>> @@
    <<"1">> :> <<" ">> @@
    <<"2">> :> <<"6">> @@
    <<"3">> :> <<"3">> @@
    <<"4">> :> <<"4">> @@
    <<"a">> :> <<"8">> @@
    <<"a", "i">> :> <<"9">> @@
    <<"a", "n">> :> <<"0">> @@
    <<"a", "n", "g">> :> <<";">> @@
    <<"a", "o">> :> <<"l">> @@
    <<"b">> :> <<"1">> @@
    <<"c">> :> <<"h">> @@
    <<"c", "h">> :> <<"t">> @@
    <<"d">> :> <<"2">> @@
    <<"e">> :> <<"k">> @@
    <<"e", "i">> :> <<"o">> @@
    <<"e", "n">> :> <<"p">> @@
    <<"e", "n", "g">> :> <<"/">> @@
    <<"e", "r">> :> <<"-">> @@
    <<"f">> :> <<"z">> @@
    <<"g">> :> <<"e">> @@
    <<"h">> :> <<"c">> @@
    <<"i">> :> <<"u">> @@
    <<"i", "a">> :> <<"u", "8">> @@
    <<"i", "a", "n">> :> <<"u", "0">> @@
    <<"i", "a", "n", "g">> :> <<"u", ";">> @@
    <<"i", "a", "o">> :> <<"u", "l">> @@
    <<"i", "e">> :> <<"u", ",">> @@
    <<"i", "n">> :> <<"u", "p">> @@
    <<"i", "n", "g">> :> <<"u", "/">> @@
    <<"i", "o", "n", "g">> :> <<"m", "/">> @@
    <<"i", "u">> :> <<"u", ".">> @@
    <<"j">> :> <<"r">> @@
    <<"k">> :> <<"d">> @@
    <<"l">> :> <<"x">> @@
    <<"m">> :> <<"a">> @@
    <<"n">> :> <<"s">> @@
    <<"o">> :> <<"i">> @@
    <<"o", "n", "g">> :> <<"j", "/">> @@
    <<"o", "u">> :> <<".">> @@
    <<"p">> :> <<"q">> @@
    <<"q">> :> <<"f">> @@
    <<"r">> :> <<"b">> @@
    <<"s">> :> <<"n">> @@
    <<"s", "h">> :> <<"g">> @@
    <<"t">> :> <<"w">> @@
    <<"u">> :> <<"j">> @@
    <<"u", "a">> :> <<"j", "8">> @@
    <<"u", "a", "i">> :> <<"j", "9">> @@
    <<"u", "a", "n">> :> <<"j", "0">> @@
    <<"u", "a", "n", "g">> :> <<"j", ";">> @@
    <<"u", "e", "n">> :> <<"m", "p">> @@
    <<"u", "e", "n", "g">> :> <<"j", "/">> @@
    <<"u", "i">> :> <<"j", "o">> @@
    <<"u", "n">> :> <<"j", "p">> @@
    <<"u", "o">> :> <<"j", "i">> @@
    <<"v">> :> <<"m">> @@
    <<"v", "a", "n">> :> <<"m", "0">> @@
    <<"v", "a", "n", "g">> :> <<"m", ";">> @@
    <<"v", "e">> :> <<"m", ",">> @@
    <<"v", "n">> :> <<"m", "p">> @@
    <<"w">> :> <<"j">> @@
    <<"x">> :> <<"v">> @@
    <<"y">> :> <<"u">>

XIAOHE_KEYS ==
    <<"a", "i">> :> <<"d">> @@
    <<"a", "n">> :> <<"j">> @@
    <<"a", "n", "g">> :> <<"h">> @@
    <<"a", "o">> :> <<"c">> @@
    <<"c", "h">> :> <<"i">> @@
    <<"e", "i">> :> <<"w">> @@
    <<"e", "n">> :> <<"f">> @@
    <<"e", "n", "g">> :> <<"g">> @@
    <<"i", "a">> :> <<"x">> @@
    <<"i", "a", "n">> :> <<"m">> @@
    <<"i", "a", "n", "g">> :> <<"l">> @@
    <<"i", "a", "o">> :> <<"n">> @@
    <<"i", "e">> :> <<"p">> @@
    <<"i", "n">> :> <<"b">> @@
    <<"i", "n", "g">> :> <<"k">> @@
    <<"i", "o", "n", "g">> :> <<"s">> @@
    <<"i", "u">> :> <<"q">> @@
    <<"o", "n", "g">> :> <<"s">> @@
    <<"o", "u">> :> <<"z">> @@
    <<"s", "h">> :> <<"u">> @@
    <<"u", "a">> :> <<"x">> @@
    <<"u", "a", "i">> :> <<"k">> @@
    <<"u", "a", "n">> :> <<"r">> @@
    <<"u", "a", "n", "g">> :> <<"l">> @@
    <<"u", "i">> :> <<"v">> @@
    <<"u", "n">> :> <<"y">> @@
    <<"u", "o">> :> <<"o">> @@
    <<"v", "e">> :> <<"t">> @@
    <<"u", "e">> :> <<"t">> @@
    <<"v", "n">> :> <<"y">>

ZIRANMA_KEYS ==
    <<"a", "i">> :> <<"l">> @@
    <<"a", "n">> :> <<"j">> @@
    <<"a", "n", "g">> :> <<"h">> @@
    <<"a", "o">> :> <<"k">> @@
    <<"c", "h">> :> <<"i">> @@
    <<"e", "i">> :> <<"z">> @@
    <<"e", "n">> :> <<"f">> @@
    <<"e", "n", "g">> :> <<"g">> @@
    <<"i", "a">> :> <<"w">> @@
    <<"i", "a", "n">> :> <<"m">> @@
    <<"i", "a", "n", "g">> :> <<"d">> @@
    <<"i", "a", "o">> :> <<"c">> @@
    <<"i", "e">> :> <<"x">> @@
    <<"i", "n">> :> <<"n">> @@
    <<"i", "n", "g">> :> <<"y">> @@
    <<"i", "o", "n", "g">> :> <<"s">> @@
    <<"i", "u">> :> <<"q">> @@
    <<"o", "n", "g">> :> <<"s">> @@
    <<"o", "u">> :> <<"b">> @@
    <<"s", "h">> :> <<"u">> @@
    <<"u", "a">> :> <<"w">> @@
    <<"u", "a", "i">> :> <<"y">> @@
    <<"u", "a", "n">> :> <<"r">> @@
    <<"u", "a", "n", "g">> :> <<"d">> @@
    <<"u", "i">> :> <<"v">> @@
    <<"u", "n">> :> <<"p">> @@
    <<"u", "o">> :> <<"o">> @@
    <<"v", "e">> :> <<"t">> @@
    <<"u", "e">> :> <<"t">> @@
    <<"v", "n">> :> <<"p">> @@
    <<"z", "h">> :> <<"v">>

PHONETIC_LOCAL_KEYS ==
    <<"y", "i">> :> <<"i">> @@
    <<"y", "o", "u">> :> <<"i", "u">> @@
    <<"y", "i", "n">> :> <<"i", "n">> @@
    <<"y", "e">> :> <<"i", "e">> @@
    <<"y", "i", "n", "g">> :> <<"i", "n", "g">> @@
    <<"w", "u">> :> <<"u">> @@
    <<"w", "e", "n">> :> <<"u", "n">> @@
    <<"y", "u">> :> <<"v">> @@
    <<"y", "u", "e">> :> <<"v", "e">> @@
    <<"y", "u", "a", "n">> :> <<"v", "a", "n">> @@
    <<"y", "u", "n">> :> <<"v", "n">> @@
    <<"j", "u">> :> <<"j", "v">> @@
    <<"j", "u", "e">> :> <<"j", "v", "e">> @@
    <<"j", "u", "a", "n">> :> <<"j", "v", "a", "n">> @@
    <<"j", "u", "n">> :> <<"j", "v", "n">> @@
    <<"q", "u">> :> <<"q", "v">> @@
    <<"q", "u", "e">> :> <<"q", "v", "e">> @@
    <<"q", "u", "a", "n">> :> <<"q", "v", "a", "n">> @@
    <<"q", "u", "n">> :> <<"q", "v", "n">> @@
    <<"x", "u">> :> <<"x", "v">> @@
    <<"x", "u", "e">> :> <<"x", "v", "e">> @@
    <<"x", "u", "a", "n">> :> <<"x", "v", "a", "n">> @@
    <<"x", "u", "n">> :> <<"x", "v", "n">> @@
    <<"s", "h", "i">> :> <<"s", "h">> @@
    <<"s", "i">> :> <<"s">> @@
    <<"c", "h", "i">> :> <<"c", "h">> @@
    <<"c", "i">> :> <<"c">> @@
    <<"z", "h", "i">> :> <<"z", "h">> @@
    <<"z", "i">> :> <<"z">> @@
    <<"r", "i">> :> <<"r">>

\* An Option is a sequence: <<>> is None and <<v>> is Some(v).
None == <<>>

Some(v) == <<v>>

KEYBOARD_QUANPIN ==
    [local |-> None, keys |-> None, cutter |-> "standard",
     duo |-> FALSE, sequence |-> TRUE]

KEYBOARD_DAQIAN ==
    [local |-> Some(PHONETIC_LOCAL_KEYS), keys |-> Some(DAQIAN_KEYS),
     cutter |-> "standard", duo |-> FALSE, sequence |-> FALSE]

KEYBOARD_XIAOHE ==
    [local |-> None, keys |-> Some(XIAOHE_KEYS), cutter |-> "zero",
     duo |-> TRUE, sequence |-> FALSE]

KEYBOARD_ZIRANMA ==
    [local |-> None, keys |-> Some(ZIRANMA_KEYS), cutter |-> "zero",
     duo |-> TRUE, sequence |-> FALSE]

Keyboards ==
    [QUANPIN |-> KEYBOARD_QUANPIN, DAQIAN |-> KEYBOARD_DAQIAN,
     XIAOHE |-> KEYBOARD_XIAOHE, ZIRANMA |-> KEYBOARD_ZIRANMA]

KeyboardNames == {"QUANPIN", "DAQIAN", "XIAOHE", "ZIRANMA"}

\* Keyboard::keys and Keyboard::keys_cow: the mapped spelling, or s itself
KeyboardKeys(keyboard, s) ==
    IF Len(keyboard.keys) = 1 /\ s \in DOMAIN keyboard.keys[1]
    THEN keyboard.keys[1][s] ELSE s

VOWEL_CHARS == {"a", "e", "i", "o", "u", "v"}

\* Pinyin::has_initial: the first char exists and is no vowel
HasInitial(s) == Len(s) > 0 /\ s[1] \notin VOWEL_CHARS

\* a cutter whose initial is always one char
CutterOneLetter(s) ==
    LET n == Len(s)
        cursor == IF HasInitial(s) THEN 1 ELSE 0
        initial == IF HasInitial(s) THEN <<SubSeq(s, 1, cursor)>> ELSE <<>>
        finale == IF n # cursor + 1 THEN <<SubSeq(s, cursor + 1, n - 1)>> ELSE <<>>
    IN  initial \o finale \o <<SubSeq(s, n, n)>>

\* standard_cutter, for a syllable of at least two graphemes
StandardCutter(s) ==
    LET n == Len(s)
        cursor == IF HasInitial(s)
                  THEN (IF n > 2 /\ s[2] = "h" THEN 2 ELSE 1)
                  ELSE 0
        initial == IF HasInitial(s) THEN <<SubSeq(s, 1, cursor)>> ELSE <<>>
        finale == IF n # cursor + 1 THEN <<SubSeq(s, cursor + 1, n - 1)>> ELSE <<>>
    IN  initial \o finale \o <<SubSeq(s, n, n)>>

\* zero_cutter: with two parts, part 0 becomes the first letter of the
\* finale and part 1 is overwritten by its second letter (or the finale)
ZeroCutter(s) ==
    LET ss == StandardCutter(s)
    IN  IF Len(ss) # 2 THEN ss
        ELSE LET finale == ss[1]
             IN  <<SubSeq(finale, 1, 1),
                   IF Len(finale) = 2 THEN SubSeq(finale, 2, 2) ELSE finale>>

Cut(keyboard, s) == IF keyboard.cutter = "zero" THEN ZeroCutter(s) ELSE StandardCutter(s)

\* Keyboard::split
KeyboardSplit(keyboard, s) ==
    IF Len(keyboard.local) = 1
    THEN LET cut == SubSeq(s, 1, Len(s) - 1)
         IN  IF cut \in DOMAIN keyboard.local[1]
             THEN Cut(keyboard, keyboard.local[1][cut] \o SubSeq(s, Len(s), Len(s)))
             ELSE Cut(keyboard, s)
    ELSE Cut(keyboard, s)

(***************************************************************************)
(* Phoneme (src/src/elements.rs).  A phoneme is [single, strings]: Single  *)
(* holds one spelling, Multiple the spellings in insertion order.          *)
(***************************************************************************)
FuzzyNone ==
    [zh2z |-> FALSE, sh2s |-> FALSE, ch2c |-> FALSE, ang2an |-> FALSE,
     ing2in |-> FALSE, eng2en |-> FALSE, u2v |-> FALSE]

FuzzyAll ==
    [zh2z |-> TRUE, sh2s |-> TRUE, ch2c |-> TRUE, ang2an |-> TRUE,
     ing2in |-> TRUE, eng2en |-> TRUE, u2v |-> TRUE]

\* HashSet::insert on a set kept as a duplicate-free sequence
SetInsert(seq, x) == IF x \in Range(seq) THEN seq ELSE Append(seq, x)

PhonemeNew(s, settings, keyboard) ==
    LET r0 == <<s>>
        r1 == IF Len(s) = 0 THEN r0
              ELSE IF s[1] = "c"
                   THEN (IF settings.ch2c
                         THEN SetInsert(SetInsert(r0, <<"c">>), <<"c", "h">>) ELSE r0)
              ELSE IF s[1] = "s"
                   THEN (IF settings.sh2s
                         THEN SetInsert(SetInsert(r0, <<"s">>), <<"s", "h">>) ELSE r0)
              ELSE IF s[1] = "z"
                   THEN (IF settings.zh2z
                         THEN SetInsert(SetInsert(r0, <<"z">>), <<"z", "h">>) ELSE r0)
              ELSE IF s[1] = "v"
                   THEN (IF settings.u2v
                         THEN SetInsert(r0, <<"u">> \o Tail(s)) ELSE r0)
              ELSE r0
        r2 == IF \/ settings.ang2an /\ EndsWith(s, <<"a", "n", "g">>)
                 \/ settings.eng2en /\ EndsWith(s, <<"e", "n", "g">>)
                 \/ settings.ing2in /\ EndsWith(s, <<"i", "n", "g">>)
              THEN SetInsert(r1, SubSeq(s, 1, Len(s) - 1)) ELSE r1
        r3 == IF \/ settings.ang2an /\ EndsWith(s, <<"a", "n">>)
                 \/ settings.eng2en /\ EndsWith(s, <<"e", "n">>)
                 \/ settings.ing2in /\ EndsWith(s, <<"i", "n">>)
              THEN SetInsert(r2, Append(s, "g")) ELSE r2
    IN  IF Len(r3) = 1
        THEN [single |-> TRUE, strings |-> <<KeyboardKeys(keyboard, s)>>]
        ELSE [single |-> FALSE,
              strings |-> Tup([i \in 1..Len(r3) |-> KeyboardKeys(keyboard, r3[i])])]

RECURSIVE StrcmpFrom(_, _, _, _, _)
StrcmpFrom(a, b, a_start, len, i) ==
    IF i >= len THEN len
    ELSE IF a[i + a_start + 1] # b[i + 1] THEN i
    ELSE StrcmpFrom(a, b, a_start, len, i + 1)

\* Phoneme::strcmp, for a_start <= |a|
Strcmp(a, b, a_start) == StrcmpFrom(a, b, a_start, Min(Len(a) - a_start, Len(b)), 0)

PhonemeIsEmpty(p) == p.single /\ Len(p.strings[1]) = 0

\* Phoneme::match_sequence, for spellings that are not empty
PhonemeMatchSequence(p, c) == \E i \in 1..Len(p.strings) : p.strings[i][1] = c

RECURSIVE MatchAlternatives(_, _, _, _, _, _)
\* the loop of Phoneme::match_string over the spellings from position k
MatchAlternatives(strings, k, source, start, partial, ret) ==
    IF k > Len(strings) THEN ret
    ELSE With(Strcmp(source, strings[k], start), LAMBDA size :
             MatchAlternatives(strings, k + 1, source, start, partial,
                 IF (partial /\ start + size = Len(source)) \/ size = Len(strings[k])
                 THEN IndexSetSet(ret, size) ELSE ret))

\* Phoneme::match_string
PhonemeMatchString(p, source, start, partial) ==
    IF p.single /\ TrimIsEmpty(p.strings[1]) THEN IndexSetNone
    ELSE MatchAlternatives(p.strings, 1, source, start, partial, IndexSetNone)

RECURSIVE MatchIdxLoop(_, _, _, _, _, _, _)
MatchIdxLoop(p, source, is, k, start, partial, ret) ==
    IF k > Len(is) THEN ret
    ELSE MatchIdxLoop(p, source, is, k + 1, start, partial,
             IndexSetMerge(ret,
                 IndexSetOffset(PhonemeMatchString(p, source, start + is[k], partial),
                                is[k])))

\* Phoneme::match_string_idx
PhonemeMatchStringIdx(p, source, idx, start, partial) ==
    IF PhonemeIsEmpty(p) THEN idx
    ELSE MatchIdxLoop(p, source, IndexSetForEach(idx), 1, start, partial, IndexSetNone)

(***************************************************************************)
(* Pinyin and Character (src/src/elements.rs).                             *)
(***************************************************************************)
PinyinNew(s, settings, keyboard, id) ==
    LET split == KeyboardSplit(keyboard, s)
    IN  [id |-> id,
         phonemes |-> Tup([i \in 1..Len(split) |->
                              PhonemeNew(split[i], settings, keyboard)]),
         raw |-> s,
         duo |-> keyboard.duo,
         sequence |-> keyboard.sequence]

RECURSIVE LoopKeepingActive(_, _, _, _, _, _, _)
\* a loop in which a phoneme that matches nothing is skipped: the next
\* phoneme starts from the indices of the phoneme before
LoopKeepingActive(phonemes, k, s, start, partial, active, ret) ==
    IF k > Len(phonemes) THEN ret
    ELSE With(PhonemeMatchStringIdx(phonemes[k], s, active, start, partial), LAMBDA a :
             LoopKeepingActive(phonemes, k + 1, s, start, partial,
                               IF a = IndexSetNone THEN active ELSE a,
                               IF a = IndexSetNone THEN ret ELSE IndexSetMerge(ret, a)))

RECURSIVE PinyinMatchLoop(_, _, _, _, _, _, _)
\* the for_each over the phonemes of the non-duo branch: an empty active
\* set skips the merge of this phoneme, and the loop goes on
PinyinMatchLoop(phonemes, k, s, start, partial, active, ret) ==
    IF k > Len(phonemes) THEN ret
    ELSE With(PhonemeMatchStringIdx(phonemes[k], s, active, start, partial), LAMBDA a :
             PinyinMatchLoop(phonemes, k + 1, s, start, partial, a,
                             IF a = IndexSetNone THEN ret ELSE IndexSetMerge(ret, a)))

\* the phonemes of Pinyin::match_string: the duo branch, or the loop of the
\* other branch before its sequence rule
PinyinMatchPhonemes(p, s, start, partial) ==
    IF p.duo
    THEN With(PhonemeMatchStringIdx(p.phonemes[2], s,
                  PhonemeMatchStringIdx(p.phonemes[1], s, IndexSetZero, start, partial),
                  start, partial), LAMBDA r1 :
             IF Len(p.phonemes) = 3
             THEN IndexSetMerge(r1, PhonemeMatchStringIdx(p.phonemes[3], s, r1, start, partial))
             ELSE r1)
    ELSE PinyinMatchLoop(p.phonemes, 1, s, start, partial, IndexSetZero, IndexSetNone)

\* Pinyin::match_string without the rule of the sequence keyboards
MatchWithoutSequence(p, s, start, partial) == PinyinMatchPhonemes(p, s, start, partial)

\* Pinyin::match_string, for start < |s|
PinyinMatchString(p, s, start, partial) ==
    IF ~p.duo /\ p.sequence /\ PhonemeMatchSequence(p.phonemes[1], s[start + 1])
    THEN IndexSetSet(PinyinMatchPhonemes(p, s, start, partial), 1)
    ELSE PinyinMatchPhonemes(p, s, start, partial)

RECURSIVE MergeReadings(_, _, _, _, _, _)
MergeReadings(pinyin, k, s, start, partial, ret) ==
    IF k > Len(pinyin) THEN ret
    ELSE MergeReadings(pinyin, k + 1, s, start, partial,
                       IndexSetMerge(ret, PinyinMatchString(pinyin[k], s, start, partial)))

\* Character::match_str
CharacterMatchStr(c, s, start, partial) ==
    MergeReadings(c.pinyin, 1, s, start, partial,
                  IF start < Len(s) /\ s[start + 1] = c.ch THEN IndexSetOne ELSE IndexSetNone)

(***************************************************************************)
(* The context (src/src/pinin.rs).  The dictionary file is an input: the   *)
(* model loads the entries of Dict.  A raw syllable gets its id when it is *)
(* first seen; Syllables lists them in that order.                         *)
(***************************************************************************)
Dict ==
    "CE" :> << <<"c", "e", "4">> >> @@
    "SHI" :> << <<"s", "h", "i", "4">> >> @@
    "WEN" :> << <<"w", "e", "n", "2">> >> @@
    "BEN" :> << <<"b", "e", "n", "3">> >> @@
    "SHI2" :> << <<"s", "h", "i", "2">>, <<"d", "a", "n", "4">> >> @@
    "TOU" :> << <<"t", "o", "u", "2">> >> @@
    "ZHONG" :> << <<"z", "h", "o", "n", "g", "1">>, <<"z", "h", "o", "n", "g", "4">> >> @@
    "AN" :> << <<"a", "n", "1">> >> @@
    "YUE" :> << <<"y", "u", "e", "4">> >> @@
    "ZHUANG" :> << <<"z", "h", "u", "a", "n", "g", "1">> >> @@
    "ANG" :> << <<"a", "n", "g", "2">> >> @@
    "YANG" :> << <<"y", "a", "n", "g", "2">> >> @@
    "LING" :> << >>

\* the raw syllables of Dict in an order of first sight
Syllables ==
    << <<"c", "e", "4">>, <<"s", "h", "i", "4">>, <<"w", "e", "n", "2">>,
       <<"b", "e", "n", "3">>, <<"s", "h", "i", "2">>, <<"d", "a", "n", "4">>,
       <<"t", "o", "u", "2">>, <<"z", "h", "o", "n", "g", "1">>,
       <<"z", "h", "o", "n", "g", "4">>, <<"a", "n", "1">>, <<"y", "u", "e", "4">>,
       <<"z", "h", "u", "a", "n", "g", "1">>, <<"a", "n", "g", "2">>,
       <<"y", "a", "n", "g", "2">> >>

\* the value of the counter `total` that get_or_insert_pinyin gave to raw
PinyinId(raw) == (CHOOSE i \in 1..Len(Syllables) : Syllables[i] = raw) - 1

\* PinIn::get_or_insert_pinyin after load_dict
GetOrInsertPinyin(raw, settings, keyboard) ==
    PinyinNew(raw, settings, keyboard, PinyinId(raw))

\* PinIn::load_dict: the map `chars`; an entry without readings is None
LoadDict(settings, keyboard) ==
    Tab([c \in DOMAIN Dict |->
        IF Len(Dict[c]) = 0 THEN None
        ELSE Some([ch |-> c,
                   pinyin |-> Tup([i \in 1..Len(Dict[c]) |->
                                  GetOrInsertPinyin(Dict[c][i], settings, keyboard)])])])

FuzzyChoices == [none |-> FuzzyNone, all |-> FuzzyAll]

\* the loaded contexts, one per keyboard and fuzzy setting
Contexts ==
    Tab([k \in KeyboardNames |-> Tab([f \in DOMAIN FuzzyChoices |->
        LoadDict(FuzzyChoices[f], Keyboards[k])])])

\* PinIn.pinyins after load_dict, one map per keyboard and fuzzy setting
LoadedPinyins ==
    Tab([k \in KeyboardNames |-> Tab([f \in DOMAIN FuzzyChoices |->
        Tab([raw \in Range(Syllables) |->
            GetOrInsertPinyin(raw, FuzzyChoices[f], Keyboards[k])])])])

\* a lookup that gives a character without readings the readings of CE
GetCharacterOrDefault(chars, c) ==
    IF c \in DOMAIN chars /\ Len(chars[c]) = 1 THEN chars[c][1]
    ELSE [ch |-> c, pinyin |-> chars["CE"][1].pinyin]

\* PinIn::get_character on the map `chars`
GetCharacter(chars, c) ==
    IF c \in DOMAIN chars /\ Len(chars[c]) = 1 THEN chars[c][1]
    ELSE [ch |-> c, pinyin |-> <<>>]

(***************************************************************************)
(* IndexSetStorage (src/src/compressed.rs): a Vec<i32> of value + 1.       *)
(***************************************************************************)
StorageInitLen == 16

IndexSetStorageNew == Fill(StorageInitLen, 0)

RECURSIVE SmearFrom(_, _)
\* size |= size >> k for k = 1, 2, 4, 8, 16
SmearFrom(size, k) ==
    IF k > 16 THEN size ELSE SmearFrom(I32Or(size, I32Shr(size, k)), 2 * k)

\* a storage that keeps the value of the set itself
StoreRaw(data, set, index) ==
    LET grown == IF index >= Len(data)
                 THEN data \o Fill(SmearFrom(index, 1) + 1 - Len(data), 0)
                 ELSE data
    IN  [grown EXCEPT ![index + 1] = set]

IndexSetStorageSet(data, set, index) ==
    LET grown == IF index >= Len(data)
                 THEN data \o Fill(SmearFrom(index, 1) + 1 - Len(data), 0)
                 ELSE data
    IN  [grown EXCEPT ![index + 1] = set + 1]

IndexSetStorageGet(data, index) ==
    IF index < Len(data)
    THEN (IF data[index + 1] # 0 THEN data[index + 1] - 1 ELSE IndexSetNull)
    ELSE IndexSetNull

(***************************************************************************)
(* Char providers (src/src/accelerator.rs, src/src/compressed.rs).  The    *)
(* Accelerator holds a handle: none, a StringProvider with its chars, or   *)
(* the shared Compressor of a searcher (named by its owner).  Deref reads  *)
(* the handle against the compressors' current character arrays.           *)
(***************************************************************************)
NoProvider == [kind |-> "none", chars |-> <<>>, owner |-> "none"]

StringProvider(s) == [kind |-> "string", chars |-> s, owner |-> "none"]

CompressorProvider(owner) == [kind |-> "compressor", chars |-> <<>>, owner |-> owner]

Deref(provider, comps) ==
    IF provider.kind = "compressor"
    THEN [provider EXCEPT !.chars = comps[provider.owner]]
    ELSE provider

\* CharProvider::end
ProviderEnd(prov, index) ==
    IF prov.kind = "string" THEN index >= Len(prov.chars)
    ELSE index < Len(prov.chars) /\ prov.chars[index + 1] = NUL

\* provider[index] is inside the vector (it panics otherwise)
ProviderHas(prov, index) == index < Len(prov.chars)

ProviderAt(prov, index) == prov.chars[index + 1]

(***************************************************************************)
(* Accelerator (src/src/accelerator.rs).  An accelerator is                *)
(* [cache, search_string, provider, partial]; search_chars is the same     *)
(* character sequence as search_string.  sys = [chars, build, comps] is    *)
(* what the calls read besides it: the context's dictionary, the build,    *)
(* the compressors.  A result carries `panic` when the call panics.        *)
(***************************************************************************)
\* Accelerator::new
AcceleratorNew ==
    [cache |-> <<>>, search_string |-> <<>>, provider |-> NoProvider, partial |-> FALSE]

\* Vec::resize_with(new_len, IndexSetStorage::new): truncates or extends
ResizeWith(cache, new_len) ==
    IF new_len <= Len(cache) THEN SubSeq(cache, 1, new_len)
    ELSE cache \o Fill(new_len - Len(cache), IndexSetStorageNew)

\* Accelerator::get_pinyin: the set and the cache afterwards
GetPinyin(acc, p, offset) ==
    With(ResizeWith(acc.cache, offset + 1), LAMBDA c1 :
    With(IndexSetStorageGet(c1[offset + 1], p.id), LAMBDA ret :
        IF ret # IndexSetNull THEN [set |-> ret, cache |-> c1]
        ELSE With(PinyinMatchString(p, acc.search_string, offset, acc.partial), LAMBDA set :
                 [set |-> set,
                  cache |-> [c1 EXCEPT ![offset + 1] =
                                IndexSetStorageSet(c1[offset + 1], set, p.id)]])))

RECURSIVE GetLoop(_, _, _, _, _)
GetLoop(acc, pinyin, k, offset, ret) ==
    IF k > Len(pinyin) THEN [set |-> ret, acc |-> acc, panic |-> FALSE]
    ELSE With(GetPinyin(acc, pinyin[k], offset), LAMBDA g :
             GetLoop([acc EXCEPT !.cache = g.cache], pinyin, k + 1, offset,
                     IndexSetMerge(ret, g.set)))

\* Accelerator::get; search_chars[offset] panics for offset >= |query|
AcceleratorGet(sys, acc, ch, offset) ==
    IF offset >= Len(acc.search_string)
    THEN [set |-> IndexSetNone, acc |-> acc, panic |-> TRUE]
    ELSE GetLoop(acc, GetCharacter(sys.chars, ch).pinyin, 1, offset,
                 IF acc.search_string[offset + 1] = ch THEN IndexSetOne ELSE IndexSetNone)

Ret(val, acc) == [val |-> val, acc |-> acc, panic |-> FALSE]

Panicked(acc) == [val |-> FALSE, acc |-> acc, panic |-> TRUE]

\* a check that lets the query's end decide alone, whatever is left of the
\* source
CheckUntilQueryEnd(sys, acc, offset, start) ==
    IF acc.provider.kind = "none" THEN Ret(FALSE, acc)
    ELSE Ret(offset = Len(acc.search_string) /\ acc.partial, acc)

RECURSIVE AcceleratorCheck(_, _, _, _), TraverseCheck(_, _, _, _, _, _)

\* IndexSet::traverse with the predicate of Accelerator::check, from loop
\* position i with the shifted value v
TraverseCheck(sys, acc, v, i, offset, start) ==
    IF i >= 7 THEN Ret(TRUE, acc)
    ELSE IF v % 2 = 1
    THEN With(AcceleratorCheck(sys, acc, offset + i, start + 1), LAMBDA r :
             IF r.panic THEN r
             ELSE IF ~r.val THEN Ret(FALSE, r.acc)
             ELSE TraverseCheck(sys, r.acc, v \div 2, i + 1, offset, start))
    ELSE IF v = 0 THEN Ret(TRUE, acc)
    ELSE TraverseCheck(sys, acc, v \div 2, i + 1, offset, start)

\* Accelerator::check
AcceleratorCheck(sys, acc, offset, start) ==
    With(Deref(acc.provider, sys.comps), LAMBDA prov :
        IF prov.kind = "none" THEN Ret(FALSE, acc)
        ELSE IF offset = Len(acc.search_string)
        THEN Ret(acc.partial \/ ProviderEnd(prov, start), acc)
        ELSE IF ProviderEnd(prov, start) THEN Ret(FALSE, acc)
        ELSE IF ~ProviderHas(prov, start) THEN Panicked(acc)
        ELSE With(AcceleratorGet(sys, acc, ProviderAt(prov, start), offset), LAMBDA s :
                 IF s.panic THEN Panicked(s.acc)
                 ELSE IF ProviderEnd(prov, start + 1)
                 THEN (IF ShlPanics(Len(acc.search_string) - offset, sys.build)
                       THEN Panicked(s.acc)
                       ELSE Ret(IndexSetGet(s.set, Len(acc.search_string) - offset), s.acc))
                 ELSE TraverseCheck(sys, s.acc, s.set, 0, offset, start)))

\* Accelerator::reset
AcceleratorReset(acc) == [acc EXCEPT !.cache = <<>>]

\* Accelerator::matches: the result of check and the accelerator afterwards
AcceleratorMatches(sys, acc, offset, start) ==
    AcceleratorCheck(sys,
        IF acc.partial THEN AcceleratorReset([acc EXCEPT !.partial = FALSE]) ELSE acc,
        offset, start)

\* Accelerator::begins
AcceleratorBegins(sys, acc, offset, start) ==
    AcceleratorCheck(sys,
        IF ~acc.partial THEN AcceleratorReset([acc EXCEPT !.partial = TRUE]) ELSE acc,
        offset, start)

RECURSIVE ContainsLoop(_, _, _, _)
\* the while loop of Accelerator::contains from source position i
ContainsLoop(sys, acc, offset, i) ==
    IF ProviderEnd(Deref(acc.provider, sys.comps), i) THEN Ret(FALSE, acc)
    ELSE With(AcceleratorCheck(sys, acc, offset, i), LAMBDA r :
             IF r.panic \/ r.val THEN r
             ELSE ContainsLoop(sys, r.acc, offset, i + 1))

\* Accelerator::contains
AcceleratorContains(sys, acc, offset, start) ==
    With(IF ~acc.partial THEN AcceleratorReset([acc EXCEPT !.partial = TRUE]) ELSE acc,
         LAMBDA a1 : IF a1.provider.kind = "none" THEN Ret(FALSE, a1)
                     ELSE ContainsLoop(sys, a1, offset, start))

\* a search that keeps the cache of the query before
SearchKeepingCache(acc, s) == [acc EXCEPT !.search_string = s]

\* Accelerator::search
AcceleratorSearch(acc, s) ==
    IF acc.search_string # s
    THEN AcceleratorReset([acc EXCEPT !.search_string = s])
    ELSE acc

RECURSIVE CommonFrom(_, _, _, _, _)
\* the loop of Accelerator::common; -1 stands for the panic of an index
\* outside the provider
CommonFrom(prov, s1, s2, max, i) ==
    IF i >= max THEN max
    ELSE IF ~ProviderHas(prov, s1 + i) \/ ~ProviderHas(prov, s2 + i) THEN -1
    ELSE IF ProviderAt(prov, s1 + i) # ProviderAt(prov, s2 + i)
            \/ ProviderAt(prov, s1 + i) = NUL THEN i
    ELSE CommonFrom(prov, s1, s2, max, i + 1)

\* Accelerator::common
AcceleratorCommon(sys, acc, s1, s2, max) ==
    With(Deref(acc.provider, sys.comps), LAMBDA prov :
        IF prov.kind = "none" THEN 0 ELSE CommonFrom(prov, s1, s2, max, 0))

(***************************************************************************)
(* PinIn::check / contains / begins / matches (src/src/pinin.rs).          *)
(***************************************************************************)
Val(b) == [val |-> b, panic |-> FALSE]

Panic == [val |-> FALSE, panic |-> TRUE]

RECURSIVE PinInCheck(_, _, _, _, _, _), TraversePinIn(_, _, _, _, _, _, _, _)

\* IndexSet::traverse with the predicate of PinIn::check
TraversePinIn(sys, v, i, s1, start1, s2, start2, partial) ==
    IF i >= 7 THEN Val(TRUE)
    ELSE IF v % 2 = 1
    THEN With(PinInCheck(sys, s1, start1 + 1, s2, start2 + i, partial), LAMBDA r :
             IF r.panic THEN r
             ELSE IF ~r.val THEN Val(FALSE)
             ELSE TraversePinIn(sys, v \div 2, i + 1, s1, start1, s2, start2, partial))
    ELSE IF v = 0 THEN Val(TRUE)
    ELSE TraversePinIn(sys, v \div 2, i + 1, s1, start1, s2, start2, partial)

\* PinIn::check; s1.chars().nth(start1).unwrap() panics beyond the source
PinInCheck(sys, s1, start1, s2, start2, partial) ==
    IF start2 = Len(s2) THEN Val(partial \/ start1 = Len(s1))
    ELSE IF start1 >= Len(s1) \/ start2 > Len(s2) THEN Panic
    ELSE With(CharacterMatchStr(GetCharacter(sys.chars, s1[start1 + 1]),
                                s2, start2, partial), LAMBDA s :
             IF start1 = Len(s1) - 1
             THEN (IF ShlPanics(Len(s2) - start2, sys.build) THEN Panic
                   ELSE Val(IndexSetGet(s, Len(s2) - start2)))
             ELSE TraversePinIn(sys, s, 0, s1, start1, s2, start2, partial))

RECURSIVE AnyCheckFrom(_, _, _, _)
\* s1.chars().enumerate().any(|(i, _)| check(s1, i, s2, 0, true))
AnyCheckFrom(sys, s1, s2, i) ==
    IF i >= Len(s1) THEN Val(FALSE)
    ELSE With(PinInCheck(sys, s1, i, s2, 0, TRUE), LAMBDA r :
             IF r.panic \/ r.val THEN r ELSE AnyCheckFrom(sys, s1, s2, i + 1))

\* the accelerated branch: install a StringProvider, then search(s2)
PinInInstall(acc, s1, s2) ==
    AcceleratorSearch([acc EXCEPT !.provider = StringProvider(s1)], s2)

Unaccelerated(r, acc) == [val |-> r.val, panic |-> r.panic, acc |-> acc]

\* PinIn::contains: the result and the context's accelerator afterwards
PinInContains(sys, accelerate, acc, s1, s2) ==
    IF ~accelerate
    THEN Unaccelerated(IF TrimIsEmpty(s1) THEN Val(StrContains(s1, s2))
                       ELSE AnyCheckFrom(sys, s1, s2, 0), acc)
    ELSE AcceleratorContains(sys, PinInInstall(acc, s1, s2), 0, 0)

\* PinIn::begins
PinInBegins(sys, accelerate, acc, s1, s2) ==
    IF ~accelerate
    THEN Unaccelerated(IF TrimIsEmpty(s1) THEN Val(StartsWith(s1, s2))
                       ELSE PinInCheck(sys, s1, 0, s2, 0, TRUE), acc)
    ELSE AcceleratorBegins(sys, PinInInstall(acc, s1, s2), 0, 0)

\* PinIn::matches
PinInMatches(sys, accelerate, acc, s1, s2) ==
    IF ~accelerate
    THEN Unaccelerated(IF TrimIsEmpty(s1) THEN Val(s1 = s2)
                       ELSE PinInCheck(sys, s1, 0, s2, 0, TRUE), acc)
    ELSE AcceleratorBegins(sys, PinInInstall(acc, s1, s2), 0, 0)

(***************************************************************************)
(* Compressor (src/src/compressed.rs).                                     *)
(***************************************************************************)
\* a push that records the length after the append
PushRecordingEnd(c, s) ==
    [chars |-> (c.chars \o s) \o <<NUL>>,
     offsets |-> Append(c.offsets, Len(c.chars) + Len(s))]

\* Compressor::push: the compressor afterwards; the returned offset is the
\* last element of its offsets
CompressorPush(c, s) ==
    [chars |-> (c.chars \o s) \o <<NUL>>, offsets |-> Append(c.offsets, Len(c.chars))]

\* compressor.chars[i]
CharAt(cs, i) == cs[i + 1]

(***************************************************************************)
(* Trie nodes (src/src/searcher.rs).  The nodes live in a heap: `nodes` is *)
(* the sequence of all nodes ever allocated and an Rc<dyn Node> is an      *)
(* index into it.  A put runs on h = [nodes, naccs, panic]: the heap, the  *)
(* searcher's registry of NAcc nodes, and whether the call has panicked.   *)
(*   NDense  [kind, data]              data: name offset, id, ...          *)
(*   NMap    [kind, children, leaves]  children: None or Some(char -> node)*)
(*   NAcc    [kind, map, index]        index: Phoneme -> set of chars      *)
(*   NSlice  [kind, exit, start, end]                                      *)
(* A HashMap or HashSet is iterated in one fixed order (Pick).             *)
(***************************************************************************)
BTREE_THRESHOLD == 256

\* the size of the child table above which an NMap becomes an NAcc
AccThreshold == 32

Pick(S) == CHOOSE x \in S : TRUE

RECURSIVE InOrder(_)
\* the elements of S in the order of iteration
InOrder(S) == IF S = {} THEN <<>> ELSE <<Pick(S)>> \o InOrder(S \ {Pick(S)})

NDenseNew == [kind |-> "NDense", data |-> <<>>]

NMapNew == [kind |-> "NMap", children |-> None, leaves |-> {}]

\* Rc::new(node): the heap afterwards; the new handle is Len(nodes)
Alloc(h, node) == [h EXCEPT !.nodes = Append(h.nodes, node)]

\* NSlice::new allocates its exit, an empty NMap, and then the slice
AllocSlice(h, start, end) ==
    LET h1 == Alloc(h, NMapNew)
    IN  Alloc(h1, [kind |-> "NSlice", exit |-> Len(h1.nodes), start |-> start, end |-> end])

\* the child table of an NMap, empty when there is none
ChildrenOf(node) == IF Len(node.children) = 1 THEN node.children[1] ELSE <<>>

\* the inner loop of match_tree over the entries j returns i: some entry
\* differs from the first at i, or the first name ends at i
MatchTreeInner(cs, data, i) ==
    \E j \in 1..(Len(data) \div 2 - 1) :
        \/ CharAt(cs, data[1] + i) # CharAt(cs, data[2 * j + 1] + i)
        \/ CharAt(cs, data[1] + i) = NUL

RECURSIVE MatchTreeFrom(_, _, _)
\* NDense::match_tree, for a node with at least two entries
MatchTreeFrom(cs, data, i) ==
    IF MatchTreeInner(cs, data, i) THEN i ELSE MatchTreeFrom(cs, data, i + 1)

MatchTree(cs, data) == MatchTreeFrom(cs, data, 0)

RECURSIVE IndexReadings(_, _, _, _)
\* the loop of NAcc::index over the readings of c
IndexReadings(index, pinyin, k, c) ==
    IF k > Len(pinyin) THEN index
    ELSE LET key == pinyin[k].phonemes[1]
             old == IF key \in DOMAIN index THEN index[key] ELSE {}
         IN  IndexReadings((key :> (old \cup {c})) @@ index, pinyin, k + 1, c)

\* NAcc::index
NAccIndex(sys, index, c) == IndexReadings(index, GetCharacter(sys.chars, c).pinyin, 1, c)

\* the first phonemes of the readings of c
FirstPhonemes(sys, c) ==
    LET pinyin == GetCharacter(sys.chars, c).pinyin
    IN  { pinyin[k].phonemes[1] : k \in 1..Len(pinyin) }

\* keys.for_each(|i| self.index(context, i)) on the cleared index: every
\* first phoneme maps to the keys that have it
ReloadKeys(sys, keys) ==
    Tab([key \in UNION { FirstPhonemes(sys, c) : c \in keys } |->
            { c \in keys : key \in FirstPhonemes(sys, c) }])

\* NAcc::reload on the NAcc with handle n
NAccReload(sys, nodes, n) ==
    LET m == nodes[n].map
        n1 == [nodes EXCEPT ![m].children = Some(ChildrenOf(nodes[m]))]
    IN  [n1 EXCEPT ![n].index = ReloadKeys(sys, DOMAIN ChildrenOf(n1[m]))]

\* NAcc::new: allocate, reload, register; the new handle is Len(nodes)
NAccNew(sys, h, map) ==
    LET h1 == Alloc(h, [kind |-> "NAcc", map |-> map, index |-> <<>>])
        n == Len(h1.nodes)
    IN  [h1 EXCEPT !.nodes = NAccReload(sys, h1.nodes, n), !.naccs = Append(h.naccs, n)]

\* a cut that drops the old exit of the slice
CutDroppingExit(cs, h, n, offset) ==
    LET h1 == Alloc(h, NMapNew)
    IN  [h1 EXCEPT !.nodes[n].exit = Len(h1.nodes), !.nodes[n].end = offset]

\* NSlice::cut
NSliceCut(cs, h, n, offset) ==
    LET self == h.nodes[n]
        h1 == Alloc(h, NMapNew)
        insert == Len(h1.nodes)
    IN  IF offset + 1 = self.end
        THEN [h1 EXCEPT !.nodes[insert].children = Some(CharAt(cs, offset) :> self.exit),
                        !.nodes[n].exit = insert,
                        !.nodes[n].end = offset]
        ELSE LET h2 == AllocSlice(h1, offset + 1, self.end)
                 half == Len(h2.nodes)
             IN  [h2 EXCEPT !.nodes[half].exit = self.exit,
                            !.nodes[insert].children = Some(CharAt(cs, offset) :> half),
                            !.nodes[n].exit = insert,
                            !.nodes[n].end = offset]

PutRet(h, ret) == [h |-> h, ret |-> ret]

RECURSIVE Put(_, _, _, _, _, _), PutAll(_, _, _, _, _, _, _),
          NDensePut(_, _, _, _, _, _), NMapPutChar(_, _, _, _, _, _),
          NMapPut(_, _, _, _, _, _), NAccPut(_, _, _, _, _, _),
          NSlicePut(_, _, _, _, _, _)

\* the loop of NDense::put that reinserts the pairs lo..hi-1 of data
\* through the node n, in order, by halves; the returned nodes are dropped
PutAll(sys, acc, h, n, data, lo, hi) ==
    IF lo >= hi \/ h.panic THEN h
    ELSE IF hi = lo + 1
    THEN Put(sys, acc, h, n, data[2 * lo + 1], data[2 * lo + 2]).h
    ELSE PutAll(sys, acc, PutAll(sys, acc, h, n, data, lo, (lo + hi) \div 2),
                n, data, (lo + hi) \div 2, hi)

\* an NDense that only ever appends
DenseAppend(sys, acc, h, n, name, id) ==
    PutRet([h EXCEPT !.nodes[n].data = Append(Append(@, name), id)], n)

\* NDense::put
NDensePut(sys, acc, h, n, name, id) ==
    IF Len(h.nodes[n].data) >= BTREE_THRESHOLD
    THEN With(AllocSlice(h, h.nodes[n].data[1],
                         h.nodes[n].data[1] + MatchTree(sys.comps.tree, h.nodes[n].data)),
              LAMBDA h1 :
                  PutRet(Put(sys, acc,
                             PutAll(sys, acc, h1, Len(h1.nodes), h.nodes[n].data,
                                    0, Len(h.nodes[n].data) \div 2),
                             Len(h1.nodes), name, id).h,
                         Len(h1.nodes)))
    ELSE PutRet([h EXCEPT !.nodes[n].data = Append(Append(@, name), id)], n)

\* NMap::init and the child of ch, a new NDense when there is none
NMapChild(h, n, ch) ==
    IF ch \in DOMAIN ChildrenOf(h.nodes[n])
    THEN [h EXCEPT !.nodes[n].children = Some(ChildrenOf(h.nodes[n]))]
    ELSE With(Alloc(h, NDenseNew), LAMBDA h3 :
             [h3 EXCEPT !.nodes[n].children =
                 Some((ch :> Len(h3.nodes)) @@ ChildrenOf(h.nodes[n]))])

\* an NMap that never wraps itself
MapWithoutAcc(sys, acc, h, n, name, id) == PutRet(NMapPutChar(sys, acc, h, n, name, id), n)

\* NMap::put before the test of the size: a leaf, or the put on the child
\* of the character and put_char of what it returns
NMapPutChar(sys, acc, h, n, name, id) ==
    IF CharAt(sys.comps.tree, name) = NUL
    THEN [h EXCEPT !.nodes[n].leaves = @ \cup {id}]
    ELSE With(NMapChild(h, n, CharAt(sys.comps.tree, name)), LAMBDA h2 :
         With(Put(sys, acc, h2,
                  ChildrenOf(h2.nodes[n])[CharAt(sys.comps.tree, name)], name + 1, id),
              LAMBDA r :
                  [r.h EXCEPT !.nodes[n].children =
                      Some((CharAt(sys.comps.tree, name) :> r.ret)
                               @@ ChildrenOf(r.h.nodes[n]))]))

\* NMap::put
NMapPut(sys, acc, h, n, name, id) ==
    With(NMapPutChar(sys, acc, h, n, name, id), LAMBDA h1 :
        IF ~h1.panic /\ Cardinality(DOMAIN ChildrenOf(h1.nodes[n])) > AccThreshold
        THEN With(NAccNew(sys, h1, n), LAMBDA h4 : PutRet(h4, Len(h4.nodes)))
        ELSE PutRet(h1, n))

\* an NAcc that puts into its map and leaves its index alone
PutWithoutIndex(sys, acc, h, n, name, id) ==
    PutRet(Put(sys, acc, h, h.nodes[n].map, name, id).h, n)

\* NAcc::put
NAccPut(sys, acc, h, n, name, id) ==
    With(Put(sys, acc, h, h.nodes[n].map, name, id).h, LAMBDA h1 :
        IF h1.panic THEN PutRet(h1, n)
        ELSE PutRet([h1 EXCEPT !.nodes[n].index =
                        NAccIndex(sys, @, CharAt(sys.comps.tree, name))], n))

\* the end of NSlice::put: the exit takes what the put returned, and an
\* empty slice is replaced by its exit
NSliceExit(r, n) ==
    With([r.h EXCEPT !.nodes[n].exit = r.ret], LAMBDA h2 :
        IF h2.nodes[n].start = h2.nodes[n].end
        THEN PutRet(h2, h2.nodes[n].exit)
        ELSE PutRet(h2, n))

\* NSlice::put
NSlicePut(sys, acc, h, n, name, id) ==
    With(h.nodes[n].end - h.nodes[n].start, LAMBDA len :
    With(AcceleratorCommon(sys, acc, h.nodes[n].start, name, len), LAMBDA matched :
        IF matched < 0 THEN PutRet([h EXCEPT !.panic = TRUE], n)
        ELSE IF matched >= len
        THEN NSliceExit(Put(sys, acc, h, h.nodes[n].exit, name + len, id), n)
        ELSE With(NSliceCut(sys.comps.tree, h, n, h.nodes[n].start + matched), LAMBDA h1 :
                 NSliceExit(Put(sys, acc, h1, h1.nodes[n].exit, name + matched, id), n))))

\* Node::put on the node with handle n: the heap afterwards and the
\* handle of the replacement node
Put(sys, acc, h, n, name, id) ==
    IF h.panic THEN PutRet(h, n)
    ELSE IF h.nodes[n].kind = "NDense" THEN NDensePut(sys, acc, h, n, name, id)
    ELSE IF h.nodes[n].kind = "NMap" THEN NMapPut(sys, acc, h, n, name, id)
    ELSE IF h.nodes[n].kind = "NAcc" THEN NAccPut(sys, acc, h, n, name, id)
    ELSE NSlicePut(sys, acc, h, n, name, id)

\* the result of a get: the indices pushed to ret, the accelerator
\* afterwards, and whether the call panicked
Got(ids, acc) == [ids |-> ids, acc |-> acc, panic |-> FALSE]

GotPanic(ids, acc) == [ids |-> ids, acc |-> acc, panic |-> TRUE]

\* the ids of the pairs of an NDense
DenseIds(data) == { data[2 * j] : j \in 1..(Len(data) \div 2) }

RECURSIVE Get(_, _)
\* Node::get on the node with handle n: every index below it
Get(nodes, n) ==
    IF nodes[n].kind = "NDense" THEN DenseIds(nodes[n].data)
    ELSE IF nodes[n].kind = "NMap"
    THEN nodes[n].leaves \cup
         UNION { Get(nodes, ChildrenOf(nodes[n])[c]) : c \in DOMAIN ChildrenOf(nodes[n]) }
    ELSE IF nodes[n].kind = "NAcc"
    THEN nodes[nodes[n].map].leaves \cup
         UNION { Get(nodes, ChildrenOf(nodes[nodes[n].map])[c]) :
                     c \in DOMAIN ChildrenOf(nodes[nodes[n].map]) }
    ELSE Get(nodes, nodes[n].exit)

\* ids joined to the indices of the result r
Joined(ids, r) == [r EXCEPT !.ids = ids \cup @]

RECURSIVE GetOffset(_, _, _, _, _, _), DenseLoop(_, _, _, _, _, _, _),
          EachOffset(_, _, _, _, _, _, _, _), MapLoop(_, _, _, _, _, _, _, _, _),
          GetSlice(_, _, _, _, _, _, _), EachSlice(_, _, _, _, _, _, _, _, _),
          NAccGetOffset(_, _, _, _, _, _)

\* the loop of NDense::get_offset over the pairs lo..hi-1, in order, by
\* halves; g is what the pairs before lo have given
DenseLoop(sys, logic, g, data, lo, hi, offset) ==
    IF lo >= hi \/ g.panic THEN g
    ELSE IF hi = lo + 1
    THEN With(IF logic = "Equal"
              THEN AcceleratorMatches(sys, g.acc, offset, data[2 * lo + 1])
              ELSE AcceleratorBegins(sys, g.acc, offset, data[2 * lo + 1]), LAMBDA r :
             IF r.panic THEN GotPanic(g.ids, r.acc)
             ELSE Got(IF r.val THEN g.ids \cup {data[2 * lo + 2]} ELSE g.ids, r.acc))
    ELSE DenseLoop(sys, logic,
                   DenseLoop(sys, logic, g, data, lo, (lo + hi) \div 2, offset),
                   data, (lo + hi) \div 2, hi, offset)

\* set.for_each(|i| node.get_offset(offset + i)) from position k of the
\* members of the set
EachOffset(sys, logic, nodes, acc, n, offset, members, k) ==
    IF k > Len(members) THEN Got({}, acc)
    ELSE With(GetOffset(sys, logic, nodes, acc, n, offset + members[k]), LAMBDA r :
             IF r.panic THEN r
             ELSE Joined(r.ids, EachOffset(sys, logic, nodes, r.acc, n, offset,
                                           members, k + 1)))

\* for each of keys[lo..hi], in order, by halves:
\*   accelerator.get(key, offset).for_each(|i| children[key].get_offset(offset + i))
\* the loop of NMap::get_offset over the children and of NAcc::get_offset
\* over the indexed characters; g is what the keys before lo have given
MapLoop(sys, logic, nodes, g, children, keys, lo, hi, offset) ==
    IF lo > hi \/ g.panic THEN g
    ELSE IF lo = hi
    THEN With(AcceleratorGet(sys, g.acc, keys[lo], offset), LAMBDA s :
             IF s.panic THEN GotPanic(g.ids, s.acc)
             ELSE Joined(g.ids, EachOffset(sys, logic, nodes, s.acc, children[keys[lo]],
                                           offset, IndexSetForEach(s.set), 1)))
    ELSE MapLoop(sys, logic, nodes,
                 MapLoop(sys, logic, nodes, g, children, keys, lo, (lo + hi) \div 2, offset),
                 children, keys, (lo + hi) \div 2 + 1, hi, offset)

\* set.for_each(|i| self.get_slice(offset + i, start + 1))
EachSlice(sys, logic, nodes, acc, n, offset, start, members, k) ==
    IF k > Len(members) THEN Got({}, acc)
    ELSE With(GetSlice(sys, logic, nodes, acc, n, offset + members[k], start + 1),
              LAMBDA r :
                  IF r.panic THEN r
                  ELSE Joined(r.ids, EachSlice(sys, logic, nodes, r.acc, n, offset, start,
                                               members, k + 1)))

\* NSlice::get_slice
GetSlice(sys, logic, nodes, acc, n, offset, start) ==
    IF nodes[n].start + start = nodes[n].end
    THEN GetOffset(sys, logic, nodes, acc, nodes[n].exit, offset)
    ELSE IF offset = Len(acc.search_string)
    THEN Got(IF logic # "Equal" THEN Get(nodes, nodes[n].exit) ELSE {}, acc)
    ELSE With(AcceleratorGet(sys, acc, CharAt(sys.comps.tree, nodes[n].start + start),
                             offset), LAMBDA s :
             IF s.panic THEN GotPanic({}, s.acc)
             ELSE EachSlice(sys, logic, nodes, s.acc, n, offset, start,
                            IndexSetForEach(s.set), 1))

\* the characters that NAcc::get_offset takes from its index: those of the
\* phonemes that match the query at offset, partially
NAccHits(index, search_string, offset) ==
    InOrder(UNION { index[key] :
        key \in { k \in DOMAIN index :
                    PhonemeMatchString(k, search_string, offset, TRUE) # IndexSetNone } })

\* NAcc::get_offset
NAccGetOffset(sys, logic, nodes, acc, n, offset) ==
    With(ChildrenOf(nodes[nodes[n].map]), LAMBDA children :
        IF Len(acc.search_string) = offset
        THEN Got(IF logic = "Equal" THEN nodes[nodes[n].map].leaves ELSE Get(nodes, n), acc)
        ELSE IF offset > Len(acc.search_string) THEN GotPanic({}, acc)
        ELSE With(IF acc.search_string[offset + 1] \in DOMAIN children
                  THEN GetOffset(sys, logic, nodes, acc,
                                 children[acc.search_string[offset + 1]], offset + 1)
                  ELSE Got({}, acc), LAMBDA d :
                 IF d.panic THEN d
                 ELSE With(NAccHits(nodes[n].index, acc.search_string, offset), LAMBDA cs :
                          MapLoop(sys, logic, nodes, d, children, cs, 1, Len(cs), offset))))

\* Node::get_offset on the node with handle n
GetOffset(sys, logic, nodes, acc, n, offset) ==
    IF nodes[n].kind = "NDense" THEN
        IF logic = "Equal" /\ Len(acc.search_string) = offset THEN Got(Get(nodes, n), acc)
        ELSE DenseLoop(sys, logic, Got({}, acc), nodes[n].data,
                       0, Len(nodes[n].data) \div 2, offset)
    ELSE IF nodes[n].kind = "NMap" THEN
        IF Len(acc.search_string) = offset
        THEN Got(IF logic = "Equal" THEN nodes[n].leaves ELSE {}, acc)
        ELSE With(InOrder(DOMAIN ChildrenOf(nodes[n])), LAMBDA keys :
                 MapLoop(sys, logic, nodes, Got({}, acc), ChildrenOf(nodes[n]), keys,
                         1, Len(keys), offset))
    ELSE IF nodes[n].kind = "NAcc" THEN NAccGetOffset(sys, logic, nodes, acc, n, offset)
    ELSE GetSlice(sys, logic, nodes, acc, n, offset, 0)

(***************************************************************************)
(* State.                                                                  *)
(***************************************************************************)
VARIABLES
    chars,        \* PinIn.chars, the loaded dictionary
    pinyins,      \* PinIn.pinyins, the Pinyin of every raw syllable seen
    total,        \* PinIn.total, the counter the Pinyin ids are taken from
    keyboard,     \* PinIn.keyboard, the name of the active keyboard
    fuzzy,        \* PinIn.fuzzy, the name of the fuzzy settings
    accelerate,   \* PinIn.accelerate
    build,        \* the build of the crate, "debug" or "release"
    accs,         \* the accelerators: of the context, of the searchers
    tree,         \* the TreeSearcher
    simple,       \* the SimpleSearcher
    src,          \* the source string / name of the last call
    qry,          \* the query string of the last call
    cache,        \* a Cache: its stored entries and its generator
    last          \* the last call and what it returned

vars ==
    <<chars, pinyins, total, keyboard, fuzzy, accelerate, build, accs, tree, simple,
      src, qry, cache, last>>

config == <<chars, pinyins, total, keyboard, fuzzy, accelerate, build>>

\* Cache::new: an empty map and the generator it is given; a generator is
\* modelled by its table, key -> Option value
CacheNew(generator) == [data |-> <<>>, generator |-> generator]

\* the crate itself constructs no Cache
NoCache == CacheNew(<<>>)

\* Compressor::default
CompressorNew == [chars |-> <<>>, offsets |-> <<>>]

\* no search on a searcher since its last insert
NoFound == [valid |-> FALSE, query |-> <<>>, ids |-> {}, panic |-> FALSE]

\* no insert loop is running on the TreeSearcher
NotLoading == [from |-> "none", line |-> 0]

\* no TreeSearcher has been constructed
NoTree ==
    [made |-> FALSE, root |-> 0, nodes |-> <<>>, objects |-> <<>>, naccs |-> <<>>,
     accelerator |-> "own", compressor |-> CompressorNew, logic |-> "Begin",
     found |-> NoFound, loading |-> NotLoading]

\* no SimpleSearcher has been constructed
NoSimple ==
    [made |-> FALSE, objects |-> <<>>, compressor |-> CompressorNew, logic |-> "Begin",
     found |-> NoFound]

\* what a call reads besides the accelerator it uses
Sys ==
    [chars |-> chars, build |-> build,
     comps |-> [tree |-> tree.compressor.chars, simple |-> simple.compressor.chars]]

\* the program is between calls: the insert loop of a data set is not
\* running
Idle == tree.loading = NotLoading

NoCall ==
    [op |-> "none", val |-> FALSE, panic |-> FALSE, set |-> IndexSetNone,
     ids |-> {}, offset |-> 0, start |-> 0, reset |-> FALSE, arg |-> <<>>,
     partial |-> FALSE, made |-> [single |-> TRUE, strings |-> <<>>]]

\* PinIn::new: the context owns one accelerator
AccsNew == [ctx |-> AcceleratorNew, own |-> AcceleratorNew, simple |-> AcceleratorNew]

(***************************************************************************)
(* Calls on the context: PinIn::contains / begins / matches.               *)
(***************************************************************************)
Called(op, r) == [NoCall EXCEPT !.op = op, !.val = r.val, !.panic = r.panic]

Contains(s1, s2) ==
    /\ With(PinInContains(Sys, accelerate, accs.ctx, s1, s2), LAMBDA r :
            /\ accs' = [accs EXCEPT !.ctx = r.acc]
            /\ last' = Called("contains", r))
    /\ src' = s1 /\ qry' = s2
    /\ UNCHANGED <<config, cache, tree, simple>>

Begins(s1, s2) ==
    /\ With(PinInBegins(Sys, accelerate, accs.ctx, s1, s2), LAMBDA r :
            /\ accs' = [accs EXCEPT !.ctx = r.acc]
            /\ last' = Called("begins", r))
    /\ src' = s1 /\ qry' = s2
    /\ UNCHANGED <<config, cache, tree, simple>>

Matches(s1, s2) ==
    /\ With(PinInMatches(Sys, accelerate, accs.ctx, s1, s2), LAMBDA r :
            /\ accs' = [accs EXCEPT !.ctx = r.acc]
            /\ last' = Called("matches", r))
    /\ src' = s1 /\ qry' = s2
    /\ UNCHANGED <<config, cache, tree, simple>>

(***************************************************************************)
(* Data sets: the lines an insert loop feeds to a TreeSearcher.            *)
(***************************************************************************)
\* the number of pairs an NDense holds when its next put promotes it
DensePairs == BTREE_THRESHOLD \div 2

\* one name often enough to promote the root, all in one leaf set
LinesSame == Fill(DensePairs + 1, <<"a">>)

\* names with a common prefix that the later names cut
LinesPrefix == (Fill(DensePairs, <<"a", "b">>) \o << <<"a", "c">>, <<"a">> >>)
                  \o << <<"CE", "SHI">> >>

Letters ==
    << "a", "b", "c", "d", "e", "f", "g", "h", "i", "j", "k", "l", "m",
       "n", "o", "p", "q", "r", "s", "t", "u", "v", "w", "x", "y", "z" >>

HanChars == << "CE", "SHI", "WEN", "BEN", "SHI2", "TOU", "ZHONG", "AN", "YUE", "LING" >>

\* the one-character names over s
OneChar(s) == [k \in 1..Len(s) |-> <<s[k]>>]

\* one name often enough to promote the root, then names with more
\* distinct first characters than an NMap keeps, the empty name among them
LinesWide ==
    ((Fill(DensePairs, <<"a">>) \o Tup(OneChar(Letters))) \o << <<>> >>)
        \o (Tup(OneChar(HanChars)) \o << <<"CE", "SHI">>, <<"a", "b">>, <<"SHI2">> >>)

\* one two-character name often enough to promote the root to an NSlice; its
\* first character has a reading with a final of two letters
LinesHan == Fill(DensePairs + 1, <<"WEN", "a">>)

\* the data sets of the insert loop
DataSets == [same |-> LinesSame, prefix |-> LinesPrefix, wide |-> LinesWide,
             han |-> LinesHan]

(***************************************************************************)
(* The searchers (src/src/searcher.rs).  `found` remembers the last search *)
(* on a searcher since its last insert: the query, the objects returned    *)
(* and whether the call panicked.                                          *)
(***************************************************************************)
Logics == {"Begin", "Contain", "Equal"}

RECURSIVE NameEnd(_, _)
\* the position of the terminator of the name that starts at offset pos
NameEnd(cs, pos) == IF CharAt(cs, pos) = NUL THEN pos ELSE NameEnd(cs, pos + 1)

\* the name the compressor c holds for its k-th push (k from 1)
NameOf(c, k) == SubSeq(c.chars, c.offsets[k] + 1, NameEnd(c.chars, c.offsets[k]))

\* SearcherLogic::test_accelerator
TestAccelerator(logic, sys, acc, offset, start) ==
    IF logic = "Begin" THEN AcceleratorBegins(sys, acc, offset, start)
    ELSE IF logic = "Contain" THEN AcceleratorContains(sys, acc, offset, start)
    ELSE AcceleratorMatches(sys, acc, offset, start)

\* TreeSearcher::new(logic, accelerator); which names the accelerator the
\* caller hands over: the context's ("ctx") or a fresh one ("own")
TreeSearcherNew(logic, which) ==
    /\ ~tree.made
    /\ tree' = [made |-> TRUE, root |-> 1, nodes |-> <<NDenseNew>>, objects |-> <<>>,
                naccs |-> <<>>, accelerator |-> which, compressor |-> CompressorNew,
                logic |-> logic, found |-> NoFound, loading |-> NotLoading]
    /\ accs' = [accs EXCEPT ![which].provider = CompressorProvider("tree")]
    /\ last' = NoCall
    /\ UNCHANGED <<config, cache, simple, src, qry>>

\* SimpleSearcher::new(logic)
SimpleSearcherNew(logic) ==
    /\ ~simple.made /\ Idle
    /\ simple' = [made |-> TRUE, objects |-> <<>>, compressor |-> CompressorNew,
                  logic |-> logic, found |-> NoFound]
    /\ accs' = [accs EXCEPT !.simple.provider = CompressorProvider("simple")]
    /\ last' = NoCall
    /\ UNCHANGED <<config, cache, tree, src, qry>>

RECURSIVE InsertLoop(_, _, _, _, _, _, _, _)
\* the for loop of TreeSearcher::insert from i: the heap and root afterwards
InsertLoop(sys, acc, h, root, pos, i, end, index) ==
    IF i >= end \/ h.panic THEN [h |-> h, root |-> root]
    ELSE With(Put(sys, acc, h, root, pos + i, index), LAMBDA r :
             InsertLoop(sys, acc, r.h, r.ret, pos, i + 1, end, index))

\* TreeSearcher::insert on the searcher t: the searcher afterwards and
\* whether the call panicked
TreeInsert(sys, acc, t, name, id) ==
    With(CompressorPush(t.compressor, name), LAMBDA c1 :
    With(InsertLoop([sys EXCEPT !.comps.tree = c1.chars], acc,
                    [nodes |-> t.nodes, naccs |-> t.naccs, panic |-> FALSE],
                    t.root, c1.offsets[Len(c1.offsets)], 0,
                    IF t.logic = "Contain" THEN Len(name) ELSE 1, Len(t.objects)),
         LAMBDA r :
             [t |-> [t EXCEPT !.compressor = c1, !.nodes = r.h.nodes,
                              !.naccs = r.h.naccs, !.root = r.root,
                              !.objects = IF r.h.panic THEN @ ELSE Append(@, id),
                              !.found = NoFound],
              panic |-> r.h.panic]))

\* the number of objects single inserts may bring a searcher to
MaxObjects == 2

\* the id the caller gives to the next object of a searcher
NextId(objects) == Len(objects) + 1

\* searcher.insert(context, name, id) on the TreeSearcher
Insert(name) ==
    /\ tree.made /\ Idle /\ Len(tree.objects) < MaxObjects
    /\ With(TreeInsert(Sys, accs[tree.accelerator], tree, name, NextId(tree.objects)),
            LAMBDA r : /\ tree' = r.t
                       /\ last' = [NoCall EXCEPT !.op = "insert", !.arg = <<name>>,
                                                 !.panic = r.panic])
    /\ UNCHANGED <<config, cache, accs, simple, src, qry>>

\* searcher.insert(context, name, id) on the SimpleSearcher
SimpleInsert(name) ==
    /\ simple.made /\ Idle /\ Len(simple.objects) < MaxObjects
    /\ simple' = [simple EXCEPT !.compressor = CompressorPush(@, name),
                                !.objects = Append(@, NextId(simple.objects)),
                                !.found = NoFound]
    /\ last' = NoCall
    /\ UNCHANGED <<config, cache, accs, tree, src, qry>>

\* lines.iter().enumerate().for_each(|(i, s)| searcher.insert(context, s, i))
\* on the empty TreeSearcher: the loop is entered with the data set `from`
InsertLines(from) ==
    /\ tree.made /\ Idle /\ tree.compressor = CompressorNew
    /\ tree' = [tree EXCEPT !.loading = [from |-> from, line |-> 0]]
    /\ last' = NoCall
    /\ UNCHANGED <<config, cache, accs, simple, src, qry>>

\* one iteration of the loop: searcher.insert(context, s, i); the loop
\* ends after the last line and when an insert panics
InsertLine ==
    /\ ~Idle
    /\ With(TreeInsert(Sys, accs[tree.accelerator], tree,
                        DataSets[tree.loading.from][tree.loading.line + 1],
                        tree.loading.line),
            LAMBDA r :
                /\ tree' = [r.t EXCEPT !.loading =
                               IF r.panic \/ tree.loading.line + 1
                                                = Len(DataSets[tree.loading.from])
                               THEN NotLoading
                               ELSE [@ EXCEPT !.line = tree.loading.line + 1]]
                /\ last' = [NoCall EXCEPT !.panic = r.panic])
    /\ UNCHANGED <<config, cache, accs, simple, src, qry>>

\* TreeSearcher::search
Search(s) ==
    /\ tree.made /\ Idle
    /\ With(GetOffset(Sys, tree.logic, tree.nodes,
                       AcceleratorSearch(accs[tree.accelerator], s), tree.root, 0),
            LAMBDA r :
                /\ accs' = [accs EXCEPT ![tree.accelerator] = r.acc]
                /\ tree' = [tree EXCEPT !.found =
                               [valid |-> TRUE, query |-> s,
                                ids |-> IF r.panic THEN {}
                                        ELSE { tree.objects[i + 1] : i \in r.ids },
                                panic |-> r.panic]]
                /\ last' = [NoCall EXCEPT !.panic = r.panic])
    /\ UNCHANGED <<config, cache, simple, src, qry>>

RECURSIVE SimpleFilter(_, _, _, _, _)
\* the filter of SimpleSearcher::search over the offsets from the k-th
SimpleFilter(sys, acc, s, k, ids) ==
    IF k > Len(s.compressor.offsets) THEN Got(ids, acc)
    ELSE With(TestAccelerator(s.logic, sys, acc, 0, s.compressor.offsets[k]), LAMBDA r :
             IF r.panic THEN GotPanic(ids, r.acc)
             ELSE SimpleFilter(sys, r.acc, s, k + 1,
                               IF r.val THEN ids \cup {s.objects[k]} ELSE ids))

\* SimpleSearcher::search
SimpleSearch(s) ==
    /\ simple.made /\ Idle
    /\ With(SimpleFilter(Sys, AcceleratorSearch(accs.simple, s), simple, 1, {}),
            LAMBDA r :
                /\ accs' = [accs EXCEPT !.simple = r.acc]
                /\ simple' = [simple EXCEPT !.found =
                                 [valid |-> TRUE, query |-> s,
                                  ids |-> IF r.panic THEN {} ELSE r.ids,
                                  panic |-> r.panic]]
                /\ last' = [NoCall EXCEPT !.panic = r.panic])
    /\ UNCHANGED <<config, cache, tree, src, qry>>

RECURSIVE ReloadAll(_, _, _, _, _)
\* naccs.iter().for_each(|i| i.reload(context)) over naccs[lo..hi], in
\* order, by halves
ReloadAll(sys, nodes, naccs, lo, hi) ==
    IF lo > hi THEN nodes
    ELSE IF lo = hi THEN NAccReload(sys, nodes, naccs[lo])
    ELSE ReloadAll(sys, ReloadAll(sys, nodes, naccs, lo, (lo + hi) \div 2),
                   naccs, (lo + hi) \div 2 + 1, hi)

\* TreeSearcher::reset
Reset ==
    /\ tree.made /\ Idle
    /\ tree' = [tree EXCEPT !.nodes = ReloadAll(Sys, tree.nodes, tree.naccs, 1, Len(tree.naccs))]
    /\ accs' = [accs EXCEPT ![tree.accelerator] = AcceleratorReset(@)]
    /\ last' = [NoCall EXCEPT !.op = "reset"]
    /\ UNCHANGED <<config, cache, simple, src, qry>>

\* SimpleSearcher::reset
SimpleReset ==
    /\ simple.made /\ Idle
    /\ accs' = [accs EXCEPT !.simple = AcceleratorReset(@)]
    /\ last' = NoCall
    /\ UNCHANGED <<config, cache, tree, simple, src, qry>>

(***************************************************************************)
(* Inputs.                                                                 *)
(***************************************************************************)
\* "a" followed by n times "x"
LongQuery(n) == <<"a">> \o Fill(n, "x")


Sources ==
    { <<>>, <<" ">>, <<"a">>, <<"a", "a">>, <<"a", " ", " ">>,
      <<"CE">>, <<"WEN">>, <<"AN">>, <<"CE", "SHI">>, <<"SHI2", "TOU">>,
      <<"ZHONG", "WEN">>, <<"CE", "SHI", "WEN", "BEN">> }

Queries ==
    { <<>>, <<" ">>, <<"a">>, <<"x">>, <<"c">>, <<"w", "e">>, <<"c", "e">>,
      <<"c", "e", "4">>, <<"c", "e", "4", "a">>, <<"z", "w">>,
      <<"s", "t", "o", "u">>,
      <<"c", "e", "2", "s", "h", "i", "4", "w", "b">>,
      <<"c", "e", "4", "s", "h", "i", "4", "w", "b">>,
      <<"c", "e", "u", "i", "w", "f", "b", "f">>,
      <<"c", "e", "u", "i", "w", "2">> } \cup
    { LongQuery(n) : n \in {6, WordBits - 1, WordBits} }

(***************************************************************************)
(* SpecMatch: the matching functions on one source and one query.          *)
(***************************************************************************)
InitMatch ==
    /\ keyboard \in KeyboardNames
    /\ fuzzy \in DOMAIN FuzzyChoices
    /\ accelerate \in BOOLEAN
    /\ build \in Builds
    /\ chars = Contexts[keyboard][fuzzy]
    /\ pinyins = LoadedPinyins[keyboard][fuzzy]
    /\ total = Len(Syllables)
    /\ cache = NoCache
    /\ accs = AccsNew
    /\ tree = NoTree
    /\ simple = NoSimple
    /\ src \in Sources
    /\ qry \in Queries
    /\ last = NoCall

NextMatch ==
    \/ Contains(src, qry)
    \/ Begins(src, qry)
    \/ Matches(src, qry)

SpecMatch == InitMatch /\ [][NextMatch]_vars

(***************************************************************************)
(* SpecTree: a TreeSearcher and a SimpleSearcher that are built from names *)
(* and searched.                                                           *)
(***************************************************************************)
Names == { <<>>, <<"a">>, <<"CE", "SHI">> }

TreeQueries == { <<>>, <<"a">>, <<"a", "c">>, <<"c", "e">>, <<"w", "e">> }

\* the SimpleSearcher is the oracle of the TreeSearcher, as in tests::full:
\* it has the same logic, is fed the same names in the same order, and is
\* asked the query the TreeSearcher was asked
InitTree ==
    /\ keyboard = "QUANPIN"
    /\ fuzzy = "none"
    /\ accelerate = TRUE
    /\ build = "release"
    /\ chars = Contexts[keyboard][fuzzy]
    /\ pinyins = LoadedPinyins[keyboard][fuzzy]
    /\ total = Len(Syllables)
    /\ cache = NoCache
    /\ accs = AccsNew
    /\ tree = NoTree
    /\ simple = NoSimple
    /\ src = <<>>
    /\ qry = <<>>
    /\ last = NoCall

NextTree ==
    \/ \E logic \in Logics : TreeSearcherNew(logic, "own")
    \/ tree.made /\ tree.objects = <<>> /\ SimpleSearcherNew(tree.logic)
    \/ \E name \in Names : Insert(name)
    \/ /\ Len(simple.objects) < Len(tree.objects) /\ Len(tree.objects) <= MaxObjects
       /\ SimpleInsert(NameOf(tree.compressor, Len(simple.objects) + 1))
    \/ \E from \in DOMAIN DataSets : InsertLines(from)
    \/ InsertLine
    \/ \E s \in TreeQueries : Search(s)
    \/ /\ tree.found.valid /\ Len(simple.objects) = Len(tree.objects)
       /\ SimpleSearch(tree.found.query)
    \/ Reset
    \/ SimpleReset

SpecTree == InitTree /\ [][NextTree]_vars

(***************************************************************************)
(* The searchers against the matching functions of the context.            *)
(***************************************************************************)
\* context.begins(name, q) / contains / matches on a context of its own
ContextTest(logic, name, q) ==
    IF logic = "Begin" THEN PinInBegins(Sys, accelerate, AcceleratorNew, name, q).val
    ELSE IF logic = "Contain" THEN PinInContains(Sys, accelerate, AcceleratorNew, name, q).val
    ELSE PinInMatches(Sys, accelerate, AcceleratorNew, name, q).val

\* the objects of the TreeSearcher whose name passes the test of its logic
Expected(q) ==
    { tree.objects[k] : k \in { j \in 1..Len(tree.objects) :
                                  ContextTest(tree.logic, NameOf(tree.compressor, j), q) } }

\* the last search on the TreeSearcher returned a result
Searched(logic) ==
    tree.made /\ tree.logic = logic /\ tree.found.valid /\ ~tree.found.panic

\* C1: after any sequence of inserts on a TreeSearcher with logic Begin,
\* search(q) returns exactly the ids whose name satisfies begins(name, q),
\* whatever node shapes the inserts produced.
C1_BeginSearchExact ==
    Searched("Begin") => tree.found.ids = Expected(tree.found.query)

\* the SimpleSearcher holds the names of the TreeSearcher and was asked the
\* TreeSearcher's last query
SameSearch ==
    /\ simple.made /\ simple.logic = tree.logic
    /\ simple.compressor = tree.compressor /\ simple.objects = tree.objects
    /\ simple.found.valid /\ ~simple.found.panic
    /\ simple.found.query = tree.found.query

\* C2: with logic Equal, after the same sequence of inserts a TreeSearcher
\* and a SimpleSearcher return the same set of ids for every query, the
\* empty query included.
C2_EqualSameAsSimple ==
    (Searched("Equal") /\ SameSearch) => tree.found.ids = simple.found.ids

\* C3: with logic Contain every starting offset of a name is in the trie,
\* so that search(q) returns an id iff contains(name, q).
C3_ContainSearchExact ==
    Searched("Contain") => tree.found.ids = Expected(tree.found.query)

(***************************************************************************)
(* The matching functions of the context against each other.               *)
(***************************************************************************)
\* the last call was op on (src, qry) and it returned
Returned(op) == last.op = op /\ ~last.panic

\* begins(s, qry) on the context as it is
BeginsNow(s) == PinInBegins(Sys, accelerate, accs.ctx, s, qry).val

\* C4: contains(s, q) is true exactly when there is a start index i into s
\* with begins(s[i..], q).
C4_ContainsIsBeginsOfSuffix ==
    Returned("contains") =>
        (last.val <=> \E i \in 0..(Len(src) - 1) : BeginsNow(Suffix(src, i)))

\* check(0, 0) of the source against the query with the partial flag off
FullCheck ==
    IF accelerate
    THEN AcceleratorCheck(Sys,
             AcceleratorReset([PinInInstall(accs.ctx, src, qry) EXCEPT !.partial = FALSE]),
             0, 0).val
    ELSE PinInCheck(Sys, src, 0, qry, 0, FALSE).val

\* C5: matches(s, q) is true exactly when check(0, 0) with partial = false
\* is, that is when the whole of s is matched by the whole of q; it implies
\* begins(s, q).
C5_MatchesIsFullCheck ==
    Returned("matches") => /\ last.val <=> FullCheck
                           /\ last.val => BeginsNow(src)

\* the IndexSet of the first source character at query position 0, partial
FirstSet ==
    IF accelerate THEN AcceleratorGet(Sys, accs.ctx, src[1], 0).set
    ELSE CharacterMatchStr(GetCharacter(chars, src[1]), qry, 0, TRUE)

\* check of the source from its second character at query position i
RestCheck(i) ==
    IF accelerate THEN AcceleratorCheck(Sys, accs.ctx, i, 1).val
    ELSE PinInCheck(Sys, src, 1, qry, i, TRUE).val

Tones == <<"c", "e", "2", "s", "h", "i", "4", "w", "b">>

TonesRight == <<"c", "e", "4", "s", "h", "i", "4", "w", "b">>

\* C6: when the source character is not the last one, check is true iff
\* some member i of the character's IndexSet has check(offset + i,
\* start + 1), and false when the set is empty; so under quanpin
\* contains("CE SHI WEN BEN", "ce2shi4wb") is false and "ce4shi4wb" true.
C6_CheckIsSomeMember ==
    /\ (Returned("begins") /\ Len(src) >= 2 /\ Len(qry) >= 1 /\ ~TrimIsEmpty(src)) =>
           (last.val <=> \E i \in IndexSetMembers(FirstSet) : RestCheck(i))
    /\ (Returned("contains") /\ keyboard = "QUANPIN"
           /\ src = <<"CE", "SHI", "WEN", "BEN">>) =>
           /\ qry = Tones => ~last.val
           /\ qry = TonesRight => last.val

\* bit r of an IndexSet value
HasBit(value, r) == r < WordBits /\ (value \div (2 ^ r)) % 2 = 1

\* C8: on the last source character check returns whether the character's
\* IndexSet contains r = |query| - offset, for every r >= 0: it is false
\* and does not fail for r >= 7 and for r >= 32.
C8_LastCharIsMembership ==
    (last.op = "begins" /\ Len(src) = 1 /\ Len(qry) >= 1 /\ ~TrimIsEmpty(src)) =>
        /\ ~last.panic
        /\ last.val <=> HasBit(FirstSet, Len(qry))

(***************************************************************************)
(* Calls on the Accelerator of the context (src/src/accelerator.rs): its   *)
(* public functions and the public field `provider`.                       *)
(***************************************************************************)
Checked(op, r, offset, start) ==
    [NoCall EXCEPT !.op = op, !.val = r.val, !.panic = r.panic,
                   !.offset = offset, !.start = start]

\* Accelerator::search(s)
AccSearch(s) ==
    /\ accelerate
    /\ accs' = [accs EXCEPT !.ctx = AcceleratorSearch(accs.ctx, s)]
    /\ qry' = s
    /\ last' = [NoCall EXCEPT !.op = "search"]
    /\ UNCHANGED <<config, cache, tree, simple, src>>

\* *accelerator.provider.borrow_mut() = Some(StringProvider::from(s))
AccProvide(s) ==
    /\ accelerate
    /\ accs' = [accs EXCEPT !.ctx.provider = StringProvider(s)]
    /\ src' = s
    /\ last' = [NoCall EXCEPT !.op = "provide"]
    /\ UNCHANGED <<config, cache, tree, simple, qry>>

\* Accelerator::matches(offset, start)
AccMatches(offset, start) ==
    /\ accelerate
    /\ With(AcceleratorMatches(Sys, accs.ctx, offset, start), LAMBDA r :
            /\ accs' = [accs EXCEPT !.ctx = r.acc]
            /\ last' = Checked("acc_matches", r, offset, start))
    /\ UNCHANGED <<config, cache, tree, simple, src, qry>>

\* Accelerator::begins(offset, start)
AccBegins(offset, start) ==
    /\ accelerate
    /\ With(AcceleratorBegins(Sys, accs.ctx, offset, start), LAMBDA r :
            /\ accs' = [accs EXCEPT !.ctx = r.acc]
            /\ last' = Checked("acc_begins", r, offset, start))
    /\ UNCHANGED <<config, cache, tree, simple, src, qry>>

\* Accelerator::contains(offset, start)
AccContains(offset, start) ==
    /\ accelerate
    /\ With(AcceleratorContains(Sys, accs.ctx, offset, start), LAMBDA r :
            /\ accs' = [accs EXCEPT !.ctx = r.acc]
            /\ last' = Checked("acc_contains", r, offset, start))
    /\ UNCHANGED <<config, cache, tree, simple, src, qry>>

\* Accelerator::get(ch, offset)
AccGet(ch, offset) ==
    /\ accelerate
    /\ With(AcceleratorGet(Sys, accs.ctx, ch, offset), LAMBDA r :
            /\ accs' = [accs EXCEPT !.ctx = r.acc]
            /\ last' = [NoCall EXCEPT !.op = "get", !.set = r.set, !.panic = r.panic,
                                      !.offset = offset, !.arg = <<ch>>])
    /\ UNCHANGED <<config, cache, tree, simple, src, qry>>

\* the reading k of the character c in the dictionary
Reading(c, k) == GetCharacter(chars, c).pinyin[k]

\* Accelerator::get_pinyin(p, offset) for the reading k of c, at a position
\* of the query
AccGetPinyin(c, k, offset) ==
    /\ accelerate
    /\ offset < Len(accs.ctx.search_string)
    /\ k <= Len(GetCharacter(chars, c).pinyin)
    /\ With(GetPinyin(accs.ctx, Reading(c, k), offset), LAMBDA g :
            /\ accs' = [accs EXCEPT !.ctx.cache = g.cache]
            /\ last' = [NoCall EXCEPT !.op = "get_pinyin", !.set = g.set,
                                      !.offset = offset, !.arg = <<c, k>>])
    /\ UNCHANGED <<config, cache, tree, simple, src, qry>>

\* context.get_character(ch).match_str(query, start, partial) on the query
\* the accelerator is searching
AccMatchStr(ch, start, partial) ==
    /\ accelerate
    /\ start < Len(qry) \/ GetCharacter(chars, ch).pinyin = <<>>
    /\ last' = [NoCall EXCEPT !.op = "match_str",
                              !.set = CharacterMatchStr(GetCharacter(chars, ch), qry,
                                                        start, partial),
                              !.start = start, !.partial = partial, !.arg = <<ch>>]
    /\ UNCHANGED <<config, cache, accs, tree, simple, src, qry>>

(***************************************************************************)
(* SpecAcc: one Accelerator under every sequence of its calls, and begins  *)
(* of the context on top of it.                                            *)
(***************************************************************************)
MaxOffset == 1

AccSources == { <<>>, <<"CE">>, <<"CE", "SHI2">> }

AccQueries == { <<>>, <<"c">>, <<"c", "e", "4", "a">>, <<"LING">> }

\* characters with readings, one with an entry without readings ("LING")
\* and one without an entry ("c")
AccChars == {"CE", "SHI2", "LING", "c"}

InitAcc ==
    /\ keyboard = "QUANPIN"
    /\ fuzzy = "none"
    /\ accelerate \in BOOLEAN
    /\ build = "release"
    /\ chars = Contexts[keyboard][fuzzy]
    /\ pinyins = LoadedPinyins[keyboard][fuzzy]
    /\ total = Len(Syllables)
    /\ cache = NoCache
    /\ accs = AccsNew
    /\ tree = NoTree
    /\ simple = NoSimple
    /\ src = <<>>
    /\ qry = <<>>
    /\ last = NoCall

NextAcc ==
    \/ \E s \in AccQueries : AccSearch(s)
    \/ \E s \in AccSources : AccProvide(s)
    \/ \E offset, start \in 0..MaxOffset : AccMatches(offset, start)
    \/ \E offset, start \in 0..MaxOffset : AccBegins(offset, start)
    \/ \E offset, start \in 0..MaxOffset : AccContains(offset, start)
    \/ \E ch \in AccChars, offset \in 0..MaxOffset : AccGet(ch, offset)
    \/ \E c \in AccChars, k \in 1..2, offset \in 0..MaxOffset : AccGetPinyin(c, k, offset)
    \/ \E ch \in AccChars, start \in 0..MaxOffset : AccMatchStr(ch, start, accs.ctx.partial)
    \/ \E s \in AccSources, q \in AccQueries : Begins(s, q)

SpecAcc == InitAcc /\ [][NextAcc]_vars

(***************************************************************************)
(* The ends of Accelerator::check.                                         *)
(***************************************************************************)
\* the provider of the context's accelerator, as the calls read it
Provider == Deref(accs.ctx.provider, Sys.comps)

\* the last call was Accelerator::matches or Accelerator::begins
CheckedNow == last.op \in {"acc_matches", "acc_begins"}

CE4A == <<"c", "e", "4", "a">>

\* C7: check(offset, start) returns false when no provider is installed;
\* with a provider, when offset is the length of the query it returns
\* (partial or provider.end(start)), where begins has set partial and
\* matches has cleared it, and otherwise it returns false when the source is
\* exhausted at start.  So begins("", q) is false for every non-empty q and
\* begins("CE", "ce4a") is false.
C7_CheckEnds ==
    /\ CheckedNow =>
          /\ accs.ctx.partial = (last.op = "acc_begins")
          /\ Provider.kind = "none" => ~last.val /\ ~last.panic
          /\ (Provider.kind # "none" /\ last.offset = Len(accs.ctx.search_string)) =>
                /\ ~last.panic
                /\ last.val <=> (last.op = "acc_begins" \/ ProviderEnd(Provider, last.start))
          /\ (Provider.kind # "none" /\ last.offset # Len(accs.ctx.search_string)
                /\ ProviderEnd(Provider, last.start)) => ~last.val /\ ~last.panic
    /\ (Returned("begins") /\ src = <<>> /\ qry # <<>>) => ~last.val
    /\ (Returned("begins") /\ src = <<"CE">> /\ qry = CE4A) => ~last.val

\* matches(1, 1) with the query "c" and the source "CE" exhausted at 1: the
\* end of the source decides
C7_Witness ==
    /\ last.op = "acc_matches" /\ last.offset = 1 /\ last.start = 1
    /\ accs.ctx.search_string = <<"c">>
    /\ Provider = StringProvider(<<"CE">>)
    /\ last.val

(***************************************************************************)
(* SpecElem: the functions of src/src/elements.rs on one character of the  *)
(* dictionary, one string and one start position.  src holds the          *)
(* character, qry the string; last.start and last.partial are the other    *)
(* arguments, chosen with them.                                            *)
(***************************************************************************)
RECURSIVE Spelled(_, _)
\* the keystrokes of the phonemes from position j on, first spellings
Spelled(phonemes, j) ==
    IF j > Len(phonemes) THEN <<>>
    ELSE phonemes[j].strings[1] \o Spelled(phonemes, j + 1)

\* the readings of the character in src
Readings == GetCharacter(chars, src[1]).pinyin

MaxStart == 2

ElemChars == {"CE", "SHI2", "ZHONG", "YUE", "ZHUANG", "LING", "a"}

\* the sources: one character, and one word for PinIn::contains
ElemSources == { <<c>> : c \in ElemChars } \cup { <<"SHI2", "TOU">> }

\* what is typed: a reading of a character on the keyboard, a beginning of
\* one, or something else
Typed(cs) ==
    { Spelled(GetCharacter(cs, c).pinyin[k].phonemes, 1) :
        c \in {"CE", "SHI2", "ZHONG", "YUE", "ZHUANG"}, k \in {1} } \cup
    { <<>>, <<" ">>, <<"a">>, <<"c">>, <<"z">>, <<"z", "h">>, <<"c", "e">>,
      <<"x", "c", "e", "4">>, <<"LING">>, <<"z", "h", "u", "a", "n", "g">>,
      <<"s", "t", "o", "u">>, <<"z", "h", "1">>, <<"z", "o", "n", "g">> }

\* the phoneme j of the reading k
PhonemeOf(k, j) == Readings[k].phonemes[j]

Applied(op) == [last EXCEPT !.op = op, !.set = IndexSetNone, !.arg = <<>>,
                            !.made = NoCall.made]

\* Phoneme::match_string
PhonemeMatch(k, j) ==
    /\ k <= Len(Readings) /\ j <= Len(Readings[k].phonemes)
    /\ last' = [Applied("phoneme_match") EXCEPT
                   !.set = PhonemeMatchString(PhonemeOf(k, j), qry, last.start, last.partial),
                   !.arg = <<k, j>>, !.made = PhonemeOf(k, j)]
    /\ UNCHANGED <<config, cache, accs, tree, simple, src, qry>>

\* Phoneme::match_string_idx from the set idx
PhonemeMatchIdx(k, j, idx) ==
    /\ k <= Len(Readings) /\ j <= Len(Readings[k].phonemes)
    /\ \A i \in IndexSetMembers(idx) : last.start + i <= Len(qry)
    /\ last' = [Applied("phoneme_match_idx") EXCEPT
                   !.set = PhonemeMatchStringIdx(PhonemeOf(k, j), qry, idx,
                                                 last.start, last.partial),
                   !.arg = <<k, j, idx>>, !.made = PhonemeOf(k, j)]
    /\ UNCHANGED <<config, cache, accs, tree, simple, src, qry>>

\* Pinyin::match_string
PinyinMatch(k) ==
    /\ k <= Len(Readings)
    /\ last.start < Len(qry)
    /\ last' = [Applied("pinyin_match") EXCEPT
                   !.set = PinyinMatchString(Readings[k], qry, last.start, last.partial),
                   !.arg = <<k>>]
    /\ UNCHANGED <<config, cache, accs, tree, simple, src, qry>>

\* Character::match_str of PinIn::get_character
CharacterMatch ==
    /\ last.start < Len(qry) \/ Readings = <<>>
    /\ last' = [Applied("match_str") EXCEPT
                   !.set = CharacterMatchStr(GetCharacter(chars, src[1]), qry,
                                             last.start, last.partial)]
    /\ UNCHANGED <<config, cache, accs, tree, simple, src, qry>>

\* the phoneme strings Phoneme::new is given: the pieces Keyboard::split
\* cuts the readings of the character into, and finals written with v
PhonemeStrings ==
    { KeyboardSplit(Keyboards[keyboard], Readings[k].raw)[j] :
        k \in 1..Len(Readings), j \in 1..2 } \cup
    { <<"v", "e">>, <<"v", "n">>, <<"v">>, <<"i", "n", "g">> }

\* Phoneme::new
NewPhoneme(s) ==
    /\ last' = [Applied("phoneme_new") EXCEPT
                   !.arg = <<s>>,
                   !.made = PhonemeNew(s, FuzzyChoices[fuzzy], Keyboards[keyboard])]
    /\ UNCHANGED <<config, cache, accs, tree, simple, src, qry>>

\* the sets match_string_idx starts from: {0} and {1, 2}
StartSets == {IndexSetZero, 6}

InitElem ==
    /\ keyboard \in KeyboardNames
    /\ fuzzy \in DOMAIN FuzzyChoices
    /\ accelerate = FALSE
    /\ build = "release"
    /\ chars = Contexts[keyboard][fuzzy]
    /\ pinyins = LoadedPinyins[keyboard][fuzzy]
    /\ total = Len(Syllables)
    /\ cache = NoCache
    /\ accs = AccsNew
    /\ tree = NoTree
    /\ simple = NoSimple
    /\ src \in ElemSources
    /\ qry \in Typed(chars)
    /\ last \in { [NoCall EXCEPT !.start = st, !.partial = pa] :
                    st \in 0..Min(MaxStart, Len(qry)), pa \in BOOLEAN }

NextElem ==
    \/ \E k \in 1..2, j \in 1..3 : PhonemeMatch(k, j)
    \/ \E k \in 1..2, j \in 1..3, idx \in StartSets : PhonemeMatchIdx(k, j, idx)
    \/ \E k \in 1..2 : PinyinMatch(k)
    \/ CharacterMatch
    \/ \E s \in PhonemeStrings : NewPhoneme(s)
    \/ Contains(src, qry)

SpecElem == InitElem /\ [][NextElem]_vars

\* the last call was Pinyin::match_string on the reading last.arg[1]
PinyinMatched == last.op = "pinyin_match"

STOU == <<"s", "t", "o", "u">>

\* C9: on the full-pinyin keyboard (sequence on, duo off), for every reading
\* p and start < |query|: when a spelling of p's first phoneme starts with
\* query[start], 1 is in p.match_string(query, start, partial), for both
\* values of partial.  On the keyboards with sequence off the rule adds
\* nothing: the set holds 1 only when the phonemes matched one keystroke.
\* So contains("SHI2 TOU", "stou") is true on the full-pinyin keyboard.
C9_SequenceBit ==
    /\ (PinyinMatched /\ keyboard = "QUANPIN"
           /\ PhonemeMatchSequence(Readings[last.arg[1]].phonemes[1], qry[last.start + 1]))
          => HasBit(last.set, 1)
    /\ (PinyinMatched /\ ~Keyboards[keyboard].sequence)
          => last.set = PinyinMatchPhonemes(Readings[last.arg[1]], qry,
                                            last.start, last.partial)
    /\ (Returned("contains") /\ keyboard = "QUANPIN"
           /\ src = <<"SHI2", "TOU">> /\ qry = STOU) => last.val

\* "z" against zhong1, not partial: the phonemes match nothing and the
\* rule alone gives 1
C9_Witness ==
    /\ PinyinMatched /\ keyboard = "QUANPIN" /\ src = <<"ZHONG">> /\ qry = <<"z">>
    /\ last.start = 0 /\ ~last.partial
    /\ PinyinMatchPhonemes(Readings[1], qry, 0, FALSE) = IndexSetNone
    /\ last.set = IndexSetSet(IndexSetNone, 1)

(***************************************************************************)
(* The cache of the Accelerator.                                           *)
(***************************************************************************)
\* the reading with the given id, as the context made it
PinyinOfId(id) ==
    GetOrInsertPinyin(Syllables[id + 1], FuzzyChoices[fuzzy], Keyboards[keyboard])

\* the cached entry at (offset, id) of an accelerator
Cached(acc, offset, id) ==
    IF offset < Len(acc.cache) THEN IndexSetStorageGet(acc.cache[offset + 1], id)
    ELSE IndexSetNull

Ids == 0..(Len(Syllables) - 1)

\* every entry of the cache is what match_string gives on the current query
\* with the current partial flag
Coherent ==
    \A offset \in 0..(Len(accs.ctx.cache) - 1), id \in Ids :
        Cached(accs.ctx, offset, id) # IndexSetNull =>
            /\ offset < Len(accs.ctx.search_string)
            /\ Cached(accs.ctx, offset, id)
                 = PinyinMatchString(PinyinOfId(id), accs.ctx.search_string, offset,
                                     accs.ctx.partial)

\* search empties the cache exactly when it installs a different query
SearchResets ==
    last'.op = "search" =>
        accs'.ctx.cache = IF qry' # accs.ctx.search_string THEN <<>> ELSE accs.ctx.cache

\* matches, begins and contains at the end of the query compute no set: the
\* cache is emptied exactly when the call changes the partial flag
FlagResets ==
    (last'.op \in {"acc_matches", "acc_begins", "acc_contains"}
        /\ last'.offset = Len(accs.ctx.search_string)) =>
        accs'.ctx.cache = IF accs'.ctx.partial # accs.ctx.partial THEN <<>>
                          ELSE accs.ctx.cache

KeepsEntries ==
    last'.op = "get_pinyin" =>
        \A offset \in 0..MaxOffset, id \in Ids :
            Cached(accs.ctx, offset, id) # IndexSetNull =>
                Cached(accs'.ctx, offset, id) = Cached(accs.ctx, offset, id)

\* C11: once get_pinyin(p, offset) has computed an entry, every later
\* get_pinyin(p, offset) before the next reset of the cache is answered from
\* the cache, without match_string, whatever get_pinyin calls for other
\* readings or for smaller or larger offsets happen in between.
C11_CacheHit == [][KeepsEntries]_vars

(***************************************************************************)
(* SpecShare: a TreeSearcher made on the accelerator of the context, as    *)
(* TreeSearcher::new(logic, context.accelerator.clone().unwrap()), used in *)
(* turns with the matching functions of the context.                       *)
(***************************************************************************)
ShareSources == { <<"a">>, <<"CE", "SHI">> }

\* the names inserted: a &str may hold the char '\0'
ShareNames == Names \cup { <<"a", NUL>> }

InitShare ==
    /\ keyboard = "QUANPIN"
    /\ fuzzy = "none"
    /\ accelerate = TRUE
    /\ build = "release"
    /\ chars = Contexts[keyboard][fuzzy]
    /\ pinyins = LoadedPinyins[keyboard][fuzzy]
    /\ total = Len(Syllables)
    /\ cache = NoCache
    /\ accs = AccsNew
    /\ tree = NoTree
    /\ simple = NoSimple
    /\ src = <<>>
    /\ qry = <<>>
    /\ last = NoCall

NextShare ==
    \/ \E logic \in Logics : TreeSearcherNew(logic, "ctx")
    \/ \E name \in ShareNames : Insert(name)
    \/ \E s \in TreeQueries : Search(s)
    \/ \E s \in ShareSources, q \in TreeQueries : Begins(s, q)
    \/ \E s \in ShareSources, q \in TreeQueries : Contains(s, q)
    \/ \E s \in ShareSources, q \in TreeQueries : Matches(s, q)

SpecShare == InitShare /\ [][NextShare]_vars

\* an accelerator nobody else has used, reading the trie's Compressor
OwnAccelerator == [AcceleratorNew EXCEPT !.provider = CompressorProvider("tree")]

\* what the search of the last query returns on such an accelerator
UndisturbedSearch ==
    With(GetOffset(Sys, tree.logic, tree.nodes,
                   AcceleratorSearch(OwnAccelerator, tree.found.query), tree.root, 0),
         LAMBDA r : [ids |-> IF r.panic THEN {} ELSE { tree.objects[i + 1] : i \in r.ids },
                     panic |-> r.panic])

\* C12: TreeSearcher.search(q) makes the accelerator read the trie's own
\* Compressor: whatever PinIn.contains, begins or matches did with the shared
\* accelerator before, the search returns what it returns on an accelerator
\* that was not used in between.
C12_SearchReadsOwnCompressor ==
    (tree.made /\ tree.found.valid) =>
        /\ tree.found.panic = UndisturbedSearch.panic
        /\ tree.found.ids = UndisturbedSearch.ids

(***************************************************************************)
(* The promotion of the root NDense.                                       *)
(***************************************************************************)
\* the root is an NDense
RootDense == tree.made /\ tree.nodes[tree.root].kind = "NDense"

RootData == tree.nodes[tree.root].data

\* this step is an insert that made one put on the root and did not panic
PutOnRoot ==
    /\ tree.made /\ tree'.made
    /\ Len(tree'.objects) = Len(tree.objects) + 1
    /\ tree.logic # "Contain" \/ Len(NameOf(tree'.compressor, Len(tree'.objects))) = 1

\* the name stored from position pos of the compressor after the step
StoredAt(pos) == SubSeq(tree'.compressor.chars, pos + 1, NameEnd(tree'.compressor.chars, pos))

\* the name offsets of the root's pairs, and the offset of the new name
StoredOffsets ==
    { RootData[2 * j - 1] : j \in 1..(Len(RootData) \div 2) }
        \cup { tree'.compressor.offsets[Len(tree'.objects)] }

\* the length of the longest common prefix of the names at these offsets,
\* of which first is one
CommonPrefix(offsets, first) ==
    CHOOSE k \in 0..Len(StoredAt(first)) :
        /\ \A a \in offsets :
              /\ Len(StoredAt(a)) >= k
              /\ SubSeq(StoredAt(a), 1, k) = SubSeq(StoredAt(first), 1, k)
        /\ \/ \E a \in offsets : Len(StoredAt(a)) = k
           \/ \E a \in offsets : StoredAt(a)[k + 1] # StoredAt(first)[k + 1]

\* the put appended the pair and returned the node itself
Appended ==
    /\ tree'.root = tree.root
    /\ tree'.nodes[tree.root].kind = "NDense"
    /\ tree'.nodes[tree.root].data
         = RootData \o <<tree'.compressor.offsets[Len(tree'.objects)], Len(tree.objects)>>

\* the put replaced the node by an NSlice that starts at the first name,
\* spans the common prefix of all the names, and holds every pair
Promoted ==
    /\ tree'.nodes[tree'.root].kind = "NSlice"
    /\ tree'.nodes[tree'.root].start = RootData[1]
    /\ tree'.nodes[tree'.root].end = RootData[1] + CommonPrefix(StoredOffsets, RootData[1])
    /\ Get(tree'.nodes, tree'.root) = DenseIds(RootData) \cup {Len(tree.objects)}

\* C13, as stated: NDense.put replaces the node by an NSlice exactly when
\* the node holds at least BTREE_THRESHOLD = 256 (name_offset, id) entries
\* before the insert; with fewer entries it appends the pair and returns
\* itself.
C13_PromotesAt256Entries ==
    [][(RootDense /\ PutOnRoot) =>
          IF Len(RootData) \div 2 >= BTREE_THRESHOLD THEN Promoted ELSE Appended]_vars

\* C13, amended: NDense.put replaces the node by an NSlice exactly when its
\* data vector holds at least BTREE_THRESHOLD = 256 words before the
\* insert, which is 128 (name_offset, id) entries; with fewer it appends the
\* pair and returns itself.  On promotion the slice starts at the first
\* name and spans the longest common prefix of the stored names and the new
\* one, and every existing pair plus the new pair is below the slice.
C13_PromotesAt256Words ==
    [][(RootDense /\ PutOnRoot) =>
          IF Len(RootData) >= BTREE_THRESHOLD THEN Promoted ELSE Appended]_vars

\* the insert after the 128th made the root an NSlice
C13_Witness ==
    /\ tree.made /\ tree.nodes[tree.root].kind = "NSlice"
    /\ Len(tree.objects) = BTREE_THRESHOLD \div 2 + 1
    /\ tree.nodes[tree.root].end = tree.nodes[tree.root].start + 1

(***************************************************************************)
(* The promotion of the root NMap.                                         *)
(***************************************************************************)
\* the root is an NMap
RootMap == tree.made /\ tree.nodes[tree.root].kind = "NMap"

\* the name of the insert of this step
NewName == NameOf(tree'.compressor, Len(tree'.objects))

\* the characters of the child table of the root of before, before and
\* after the step
Keys == DOMAIN ChildrenOf(tree.nodes[tree.root])

KeysAfter == DOMAIN ChildrenOf(tree'.nodes[tree.root])

\* C14: NMap.put returns an NAcc wrapping the map exactly when, after the
\* insert, the child table of the map has more than 32 entries; otherwise it
\* returns the same NMap.  A put whose name ends at this node adds the id to
\* the leaf set and creates no child.
C14_MapToAcc ==
    [][(RootMap /\ PutOnRoot) =>
          /\ IF Cardinality(KeysAfter) > 32
             THEN /\ tree'.nodes[tree'.root].kind = "NAcc"
                  /\ tree'.nodes[tree'.root].map = tree.root
             ELSE tree'.root = tree.root
          /\ NewName = <<>> =>
                /\ tree'.nodes[tree.root].leaves
                     = tree.nodes[tree.root].leaves \cup {Len(tree.objects)}
                /\ ChildrenOf(tree'.nodes[tree.root]) = ChildrenOf(tree.nodes[tree.root])
          /\ NewName # <<>> =>
                /\ tree'.nodes[tree.root].leaves = tree.nodes[tree.root].leaves
                /\ KeysAfter = Keys \cup {NewName[1]}]_vars

\* the root NAcc over a map of 33 children, the empty name among its leaves
C14_Witness ==
    /\ tree.made /\ tree.nodes[tree.root].kind = "NAcc"
    /\ Cardinality(DOMAIN ChildrenOf(tree.nodes[tree.nodes[tree.root].map])) = 33
    /\ tree.nodes[tree.nodes[tree.root].map].leaves # {}
    /\ Len(tree.objects) = (BTREE_THRESHOLD \div 2) + 34

(***************************************************************************)
(* The members of the sets of src/src/elements.rs.                         *)
(***************************************************************************)
\* the last call returned an IndexSet
SetReturned ==
    last.op \in {"phoneme_match", "phoneme_match_idx", "pinyin_match", "match_str"}

\* every member of a set that is not negative, whatever its position
AllMembers(value) == { i \in 0..(WordBits - 2) : HasBit(value, i) }

\* C15: every IndexSet produced by Phoneme.match_string,
\* Phoneme.match_string_idx, Pinyin.match_string and Character.match_str
\* holds only indices from 0 to 6, also for the syllables of seven
\* keystrokes with their tone, such as zhuang1: for_each and traverse, which
\* scan the positions 0 to 6, visit every member.
C15_MembersBelowSeven ==
    SetReturned => last.set >= 0 /\ AllMembers(last.set) \subseteq 0..6

(***************************************************************************)
(* Phoneme::match_string against the prefixes of its spellings.            *)
(***************************************************************************)
\* the length of the longest common prefix of the spelling a and of s from
\* position k
CommonLength(a, s, k) ==
    CHOOSE j \in 0..Min(Len(a), Len(s) - k) :
        /\ \A i \in 1..j : a[i] = s[k + i]
        /\ j = Min(Len(a), Len(s) - k) \/ a[j + 1] # s[k + j + 1]

\* the indices the spellings of p give on s from k
PrefixMatches(p, s, k, partial) ==
    { j \in 0..Len(s) :
        \E n \in 1..Len(p.strings) :
            /\ CommonLength(p.strings[n], s, k) = j
            /\ j = Len(p.strings[n]) \/ (partial /\ k + j = Len(s)) }

\* C16: for every phoneme p, source s and start k <= |s|, j is a member of
\* p.match_string(s, k, partial) iff some spelling a of p has a longest
\* common prefix of length j with s from k and either j = |a| or (partial
\* and k + j = |s|).  Only the single empty spelling always gives the empty
\* set; a spelling that is a space keystroke (the tone 1 of Daqian) is
\* matched like any other.
C16_PhonemePrefix ==
    last.op = "phoneme_match" =>
        /\ last.set >= 0
        /\ AllMembers(last.set)
             = IF last.made.single /\ last.made.strings[1] = <<>> THEN {}
               ELSE PrefixMatches(last.made, qry, last.start, last.partial)

\* the last call was Phoneme::new on the phoneme string last.arg[1]
PhonemeMade == last.op = "phoneme_new"

\* C17: the phoneme Phoneme::new builds holds no key sequence twice once
\* the keyboard's key mapping is applied, and it is the Single form exactly
\* when one distinct key sequence remains
C17_NoDuplicateAlternatives ==
    PhonemeMade =>
        /\ \A i, j \in 1..Len(last.made.strings) :
              last.made.strings[i] = last.made.strings[j] => i = j
        /\ last.made.single <=> Cardinality(Range(last.made.strings)) = 1

\* the call last.op on (src, qry) as the context with the accelerate flag
\* set the other way answers it
OtherPath ==
    IF last.op = "contains" THEN PinInContains(Sys, ~accelerate, accs.ctx, src, qry)
    ELSE IF last.op = "begins" THEN PinInBegins(Sys, ~accelerate, accs.ctx, src, qry)
    ELSE PinInMatches(Sys, ~accelerate, accs.ctx, src, qry)

\* C18: contains, begins and matches give the same outcome on (src, qry)
\* with accelerate = true as with accelerate = false.
C18_AccelerateEquivalent ==
    last.op \in {"contains", "begins", "matches"} =>
        With(OtherPath, LAMBDA r :
            /\ r.panic = last.panic
            /\ ~last.panic => r.val = last.val)

(***************************************************************************)
(* Compressor::push, as TreeSearcher::insert calls it.                     *)
(***************************************************************************)
\* this step is an insert: it pushed the name last'.arg[1]
TreePushed ==
    /\ last'.op = "insert"
    /\ Len(tree'.compressor.offsets) = Len(tree.compressor.offsets) + 1

\* the positions at which the pushes on c stored their '\0'
StoredTerminators(c) ==
    { (IF k < Len(c.offsets) THEN c.offsets[k + 1] ELSE Len(c.chars)) - 1 :
        k \in 1..Len(c.offsets) }

\* Compressor::end on the chars cs
CompressorEnd(cs, i) ==
    ProviderEnd(Deref(CompressorProvider("tree"), [tree |-> cs]), i)

\* none of the names pushed on c holds a '\0'
NulFree(c) ==
    Cardinality({ i \in 1..Len(c.chars) : c.chars[i] = NUL }) = Len(c.offsets)

\* push(s) from c to d returned the length of c.chars, appended s and one
\* '\0', recorded the offset and left what c held where it was
PushEffect(c, d, s) ==
    /\ d.offsets[Len(d.offsets)] = Len(c.chars)
    /\ Len(d.chars) = Len(c.chars) + Len(s) + 1
    /\ SubSeq(d.chars, 1, Len(c.chars)) = c.chars
    /\ SubSeq(d.chars, Len(c.chars) + 1, Len(c.chars) + Len(s)) = s
    /\ d.chars[Len(d.chars)] = NUL
    /\ SubSeq(d.offsets, 1, Len(c.offsets)) = c.offsets

\* after the push of s every offset returned so far addresses its name,
\* and end(i) holds exactly at the stored terminators
PushAddresses(c, d, s) ==
    /\ \A k \in 1..Len(c.offsets) : NameOf(d, k) = NameOf(c, k)
    /\ NameOf(d, Len(d.offsets)) = s
    /\ \A i \in 0..(Len(d.chars) + 1) :
          CompressorEnd(d.chars, i) <=> i \in StoredTerminators(d)

\* C19 as stated: push(s) returns the length of the character array before
\* the append, appends s and exactly one '\0', records the offset and leaves
\* what was stored unchanged; after any sequence of pushes each returned
\* offset addresses the same name, terminated by '\0', and end(i) is true
\* exactly at the stored terminators.
C19_PushKeepsNames ==
    [][TreePushed =>
          /\ PushEffect(tree.compressor, tree'.compressor, last'.arg[1])
          /\ PushAddresses(tree.compressor, tree'.compressor, last'.arg[1])]_vars

\* C19 amended: the effect of push holds for every name; the offsets
\* address the names pushed, and end(i) is true exactly at the stored
\* terminators, as long as no pushed name contains the char '\0'.
C19_PushKeepsNulFreeNames ==
    [][TreePushed =>
          /\ PushEffect(tree.compressor, tree'.compressor, last'.arg[1])
          /\ NulFree(tree'.compressor) =>
                PushAddresses(tree.compressor, tree'.compressor, last'.arg[1])]_vars

\* two names without '\0' have been pushed, the second behind the first
C19_Witness ==
    /\ last.op = "insert" /\ last.arg = << <<"CE", "SHI">> >>
    /\ tree.compressor = [chars |-> <<"a", NUL, "CE", "SHI", NUL>>, offsets |-> <<0, 2>>]

(***************************************************************************)
(* Characters without readings.                                            *)
(***************************************************************************)
\* the dictionary has no entry for ch, or an entry without readings
NoReadings(ch) == ch \notin DOMAIN Dict \/ Dict[ch] = <<>>

\* {1} when the query holds ch at the position, the empty set otherwise
ExactlyAt(ch, position) ==
    IF position < Len(qry) /\ qry[position + 1] = ch THEN IndexSetOne ELSE IndexSetNone

\* C20: for a source char without dictionary entry, or with an entry
\* without readings, get_character gives a placeholder without readings and
\* adds nothing to the dictionary; Accelerator::get (at an offset of the
\* query) and Character::match_str give {1} when the query holds the char
\* at the position and the empty set otherwise.
C20_PlaceholderIsExact ==
    /\ chars = Contexts[keyboard][fuzzy]
    /\ \A ch \in AccChars :
          NoReadings(ch) => GetCharacter(chars, ch) = [ch |-> ch, pinyin |-> <<>>]
    /\ (last.op = "get" /\ ~last.panic /\ NoReadings(last.arg[1])) =>
          last.set = ExactlyAt(last.arg[1], last.offset)
    /\ (last.op = "match_str" /\ NoReadings(last.arg[1])) =>
          last.set = ExactlyAt(last.arg[1], last.start)

\* Accelerator::get found the character without readings in the query
C20_Witness ==
    /\ last.op = "get" /\ last.arg = <<"LING">> /\ last.offset = 0
    /\ qry = <<"LING">>
    /\ last.set = IndexSetOne

(***************************************************************************)
(* SpecDict: the dictionary of one context while it is loaded              *)
(* (src/src/pinin.rs).  p is [pinyins, total].                             *)
(***************************************************************************)
\* a get_or_insert_pinyin that draws from the counter on every call
GetOrInsertCounting(p, raw, settings, kb) ==
    IF raw \in DOMAIN p.pinyins
    THEN [pinyins |-> p.pinyins, total |-> p.total + 1, ret |-> p.pinyins[raw]]
    ELSE [pinyins |-> (raw :> PinyinNew(raw, settings, kb, p.total)) @@ p.pinyins,
          total |-> p.total + 1, ret |-> PinyinNew(raw, settings, kb, p.total)]

\* PinIn::get_or_insert_pinyin: pinyins and total afterwards, and the
\* Pinyin returned
GetOrInsertPinyinIn(p, raw, settings, kb) ==
    IF raw \in DOMAIN p.pinyins
    THEN [pinyins |-> p.pinyins, total |-> p.total, ret |-> p.pinyins[raw]]
    ELSE [pinyins |-> (raw :> PinyinNew(raw, settings, kb, p.total)) @@ p.pinyins,
          total |-> p.total + 1, ret |-> PinyinNew(raw, settings, kb, p.total)]

RECURSIVE CollectPinyins(_, _, _, _, _, _)
\* ss.iter().map(|s| self.get_or_insert_pinyin(s)).collect()
CollectPinyins(p, ss, i, settings, kb, got) ==
    IF i > Len(ss) THEN [p |-> p, pinyin |-> got]
    ELSE With(GetOrInsertPinyinIn(p, ss[i], settings, kb), LAMBDA r :
             CollectPinyins([pinyins |-> r.pinyins, total |-> r.total], ss, i + 1,
                            settings, kb, Append(got, r.ret)))

RECURSIVE LoadEntries(_, _, _, _, _, _, _)
\* the for_each of PinIn::load_dict over the loader's map, whose entries
\* come in the order `order`
LoadEntries(cs, p, loader, order, i, settings, kb) ==
    IF i > Len(order) THEN [chars |-> cs, p |-> p]
    ELSE IF loader[order[i]] = <<>>
         THEN LoadEntries((order[i] :> None) @@ cs, p, loader, order, i + 1, settings, kb)
    ELSE With(CollectPinyins(p, loader[order[i]], 1, settings, kb, <<>>), LAMBDA r :
             LoadEntries((order[i] :> Some([ch |-> order[i], pinyin |-> r.pinyin])) @@ cs,
                         r.p, loader, order, i + 1, settings, kb))

\* the orders in which a HashMap with the keys S may be iterated
Orders(S) ==
    { o \in [1..Cardinality(S) -> S] : \A i, j \in 1..Cardinality(S) : o[i] = o[j] => i = j }

CE4 == <<"c", "e", "4">>

SHI2 == <<"s", "h", "i", "2">>

DAN4 == <<"d", "a", "n", "4">>

LVE4 == <<"l", "v", "e", "4">>

\* what DictLoader::load_dict returns: maps from chars to raw syllables
Loaders ==
    { ("CE" :> <<CE4>>) @@ ("SHI2" :> <<SHI2, DAN4>>),
      ("SHI2" :> <<DAN4, SHI2>>) @@ ("LING" :> <<>>),
      ("CE" :> <<CE4, CE4>>) @@ ("SHI" :> <<SHI2>>) @@ ("LVE" :> <<LVE4>>) }

AN1 == <<"a", "n", "1">>

RawSyllables == {CE4, SHI2, DAN4, LVE4, AN1}

\* context.load_dict(loader)
DictLoad(loader, order) ==
    /\ With(LoadEntries(chars, [pinyins |-> pinyins, total |-> total], loader, order, 1,
                        FuzzyChoices[fuzzy], Keyboards[keyboard]),
            LAMBDA r : /\ chars' = r.chars
                       /\ pinyins' = r.p.pinyins
                       /\ total' = r.p.total)
    /\ last' = [NoCall EXCEPT !.op = "load_dict"]
    /\ UNCHANGED <<keyboard, fuzzy, accelerate, build, accs, tree, simple, src, qry, cache>>

\* context.get_or_insert_pinyin(raw)
DictGetOrInsert(raw) ==
    /\ With(GetOrInsertPinyinIn([pinyins |-> pinyins, total |-> total], raw,
                                FuzzyChoices[fuzzy], Keyboards[keyboard]),
            LAMBDA r : /\ pinyins' = r.pinyins
                       /\ total' = r.total
                       /\ last' = [NoCall EXCEPT !.op = "get_or_insert_pinyin",
                                                 !.arg = <<raw, r.ret.id>>])
    /\ UNCHANGED <<chars, keyboard, fuzzy, accelerate, build, accs, tree, simple, src, qry, cache>>

\* PinIn::new, and the keyboard and fuzzy settings set before the loading
InitDict ==
    /\ keyboard \in KeyboardNames
    /\ fuzzy \in DOMAIN FuzzyChoices
    /\ accelerate = FALSE
    /\ build = "release"
    /\ chars = <<>>
    /\ pinyins = <<>>
    /\ total = 0
    /\ cache = NoCache
    /\ accs = AccsNew
    /\ tree = NoTree
    /\ simple = NoSimple
    /\ src = <<>>
    /\ qry = <<>>
    /\ last = NoCall

NextDict ==
    \/ \E loader \in Loaders : \E order \in Orders(DOMAIN loader) : DictLoad(loader, order)
    \/ \E raw \in RawSyllables : DictGetOrInsert(raw)

SpecDict == InitDict /\ [][NextDict]_vars

\* the ids of the Pinyin the context holds
IdsHeld == { pinyins[raw].id : raw \in DOMAIN pinyins }

\* the ids are 0, 1, ..., one per raw syllable, and every reading of a
\* character in the dictionary is the Pinyin of its raw syllable
IdsDense ==
    /\ IdsHeld = 0..(total - 1)
    /\ Cardinality(DOMAIN pinyins) = total
    /\ \A raw \in DOMAIN pinyins : pinyins[raw].raw = raw
    /\ \A c \in DOMAIN chars : \A k \in 1..Len(GetCharacter(chars, c).pinyin) :
          GetCharacter(chars, c).pinyin[k] = pinyins[GetCharacter(chars, c).pinyin[k].raw]

\* a step keeps the id of every syllable, and get_or_insert_pinyin returns
\* the Pinyin with the id of its syllable
IdsKept ==
    /\ \A raw \in DOMAIN pinyins :
          raw \in DOMAIN pinyins' /\ pinyins'[raw].id = pinyins[raw].id
    /\ last'.op = "get_or_insert_pinyin" =>
          last'.arg[2] = pinyins'[last'.arg[1]].id

\* C21: across any sequence of load_dict and get_or_insert_pinyin calls on
\* one context the same raw syllable always has the same Pinyin id, two
\* syllables never share an id, and the ids are 0, 1, 2, ... without gaps
\* and never reused.
C21_PinyinIdsStable == []IdsDense /\ [][IdsKept]_vars

\* a syllable asked for again, after two others got their ids, has the id
\* it got first
C21_Witness ==
    /\ last.op = "get_or_insert_pinyin" /\ last.arg = <<CE4, 0>>
    /\ total = 3

(***************************************************************************)
(* SpecFull: the TreeSearcher of tests::full (src/src/lib.rs): the eleven  *)
(* names of the test on the full-pinyin keyboard, and its queries.         *)
(***************************************************************************)
\* the dictionary entries of the characters of the test
FullDict ==
    ("CE" :> << <<"c", "e", "4">> >>) @@
    ("SHI" :> << <<"s", "h", "i", "4">> >>) @@
    ("WEN" :> << <<"w", "e", "n", "2">> >>) @@
    ("BEN" :> << <<"b", "e", "n", "3">> >>) @@
    ("QIE" :> << <<"q", "i", "e", "1">>, <<"q", "i", "e", "4">> >>) @@
    ("FEN" :> << <<"f", "e", "n", "1">>, <<"f", "e", "n", "4">> >>) @@
    ("HE" :> << <<"h", "e", "2">>, <<"g", "e", "3">> >>) @@
    ("JIN" :> << <<"j", "i", "n", "1">> >>) @@
    ("LU" :> << <<"l", "u", "2">> >>) @@
    ("XI" :> << <<"x", "i", "3">>, <<"x", "i", "a", "n", "3">> >>) @@
    ("KUANG" :> << <<"k", "u", "a", "n", "g", "4">> >>) @@
    ("CHANG" :> << <<"c", "h", "a", "n", "g", "3">>, <<"c", "h", "a", "n", "g", "2">> >>) @@
    ("LIU" :> << <<"l", "i", "u", "2">> >>) @@
    ("TI" :> << <<"t", "i", "3">>, <<"t", "i", "1">> >>) @@
    ("HONG" :> << <<"h", "o", "n", "g", "1">> >>) @@
    ("YUE" :> << <<"y", "u", "e", "4">> >>) @@
    ("QIU" :> << <<"q", "i", "u", "2">> >>) @@
    ("HAN" :> << <<"h", "a", "n", "4">> >>) @@
    ("HUA" :> << <<"h", "u", "a", "4">>, <<"h", "u", "a", "1">> >>) @@
    ("HAN3" :> << <<"h", "a", "n", "3">> >>) @@
    ("HUA4" :> << <<"h", "u", "a", "4">> >>)

\* the raw syllables of FullDict in an order of first sight
FullSyllables ==
    << <<"c", "e", "4">>, <<"s", "h", "i", "4">>, <<"w", "e", "n", "2">>,
       <<"b", "e", "n", "3">>, <<"q", "i", "e", "1">>, <<"q", "i", "e", "4">>,
       <<"f", "e", "n", "1">>, <<"f", "e", "n", "4">>, <<"h", "e", "2">>,
       <<"g", "e", "3">>, <<"j", "i", "n", "1">>, <<"l", "u", "2">>,
       <<"x", "i", "3">>, <<"x", "i", "a", "n", "3">>,
       <<"k", "u", "a", "n", "g", "4">>, <<"c", "h", "a", "n", "g", "3">>,
       <<"c", "h", "a", "n", "g", "2">>, <<"l", "i", "u", "2">>,
       <<"t", "i", "3">>, <<"t", "i", "1">>, <<"h", "o", "n", "g", "1">>,
       <<"y", "u", "e", "4">>, <<"q", "i", "u", "2">>, <<"h", "a", "n", "4">>,
       <<"h", "u", "a", "4">>, <<"h", "u", "a", "1">>,
       <<"h", "a", "n", "3">> >>

\* PinIn::new() and load_dict: chars and pinyins, the ids taken in the order
\* of FullSyllables
FullContext ==
    [chars |->
        Tab([c \in DOMAIN FullDict |->
            Some([ch |-> c,
                  pinyin |-> Tup([i \in 1..Len(FullDict[c]) |->
                      PinyinNew(FullDict[c][i], FuzzyNone, KEYBOARD_QUANPIN,
                                (CHOOSE k \in 1..Len(FullSyllables) :
                                    FullSyllables[k] = FullDict[c][i]) - 1)])])]),
     pinyins |->
        Tab([raw \in Range(FullSyllables) |->
            PinyinNew(raw, FuzzyNone, KEYBOARD_QUANPIN,
                      (CHOOSE k \in 1..Len(FullSyllables) : FullSyllables[k] = raw) - 1)]),
     total |-> Len(FullSyllables)]

\* the names the test inserts, and the ids it gives them
FullNames ==
    << <<"CE", "SHI", "WEN", "BEN">>, <<"CE", "SHI", "QIE", "FEN">>,
       <<"CE", "SHI", "QIE", "FEN", "WEN", "BEN">>, <<"HE", "JIN", "LU">>,
       <<"XI", "KUANG", "CHANG">>, <<"LIU", "TI">>, <<"HONG", "2", "0">>,
       <<"h", "o", "n", "g", "2">>, <<"YUE", "QIU">>, <<"HAN", "HUA">>,
       <<"HAN3", "HUA4">> >>

FullIds == <<1, 5, 6, 2, 3, 4, 7, 8, 9, 10, 11>>

HONG2 == <<"h", "o", "n", "g", "2">>

HONG20 == <<"h", "o", "n", "g", "2", "0">>

CESHQF == <<"c", "e", "s", "h", "q", "f">>

CESHQFW == <<"c", "e", "s", "h", "q", "f", "w">>

HH == <<"h", "h">>

HHU == <<"h", "h", "u">>

FullQueries == {HONG2, HONG20, CESHQF, CESHQFW, HH, HHU}

\* searcher.insert(&pinin, name, id): the next insert of the test
InsertListed ==
    /\ tree.made /\ Idle /\ Len(tree.objects) < Len(FullNames)
    /\ With(TreeInsert(Sys, accs[tree.accelerator], tree,
                       FullNames[Len(tree.objects) + 1], FullIds[Len(tree.objects) + 1]),
            LAMBDA r : /\ tree' = r.t
                       /\ last' = [NoCall EXCEPT !.op = "insert",
                                                 !.arg = <<FullNames[Len(tree.objects) + 1]>>,
                                                 !.panic = r.panic])
    /\ UNCHANGED <<config, cache, accs, simple, src, qry>>

InitFull ==
    /\ keyboard = "QUANPIN"
    /\ fuzzy = "none"
    /\ accelerate = FALSE
    /\ build = "release"
    /\ chars = FullContext.chars
    /\ pinyins = FullContext.pinyins
    /\ total = FullContext.total
    /\ cache = NoCache
    /\ accs = AccsNew
    /\ tree = NoTree
    /\ simple = NoSimple
    /\ src = <<>>
    /\ qry = <<>>
    /\ last = NoCall

NextFull ==
    \/ \E logic \in Logics : TreeSearcherNew(logic, "own")
    \/ InsertListed
    \/ \E s \in FullQueries : Search(s)

SpecFull == InitFull /\ [][NextFull]_vars

\* the test's names are all inserted and the last search asked for q
FullSearched(logic, q) ==
    /\ tree.made /\ tree.logic = logic
    /\ Len(tree.objects) = Len(FullNames)
    /\ tree.found.valid /\ ~tree.found.panic /\ tree.found.query = q

\* what the test expects of the query q
FullExpected(q) ==
    IF q = HONG2 THEN {8}
    ELSE IF q = HONG20 THEN {7}
    ELSE IF q = CESHQF THEN {5}
    ELSE IF q = HH THEN {10, 11}
    ELSE {}

\* C22 as stated: with logic Begin, after the eleven inserts, search
\* returns {8} for "hong2", {7} for "hong20", {5} for "ceshqf", nothing for
\* "ceshqfw", {10, 11} for "hh" and nothing for "hhu".
C22_FullBegin ==
    \A q \in FullQueries : FullSearched("Begin", q) => tree.found.ids = FullExpected(q)

(***************************************************************************)
(* SpecSet: the operations of one IndexSet (src/src/compressed.rs).        *)
(* last.set is the receiver; a predicate is the set of the indices it      *)
(* accepts.                                                                *)
(***************************************************************************)
RECURSIVE TraverseFrom(_, _, _, _)
\* the loop of IndexSet::traverse from position i with the shifted value v:
\* the result and the indices the predicate p was applied to, in order
TraverseFrom(v, i, p, calls) ==
    IF i >= 7 THEN [val |-> TRUE, calls |-> calls]
    ELSE IF v % 2 = 1 /\ i \notin p THEN [val |-> FALSE, calls |-> Append(calls, i)]
    ELSE IF v = 0 THEN [val |-> TRUE, calls |-> calls]
    ELSE TraverseFrom(v \div 2, i + 1, p,
                      IF v % 2 = 1 THEN Append(calls, i) ELSE calls)

\* IndexSet::traverse
IndexSetTraverse(value, p) == TraverseFrom(value, 0, p, <<>>)

\* the receivers of set, offset and merge hold members below SetBits
SetBits == 8

\* the shifts of offset and the indices of set and get
MaxIndex == 6

\* the sets other calls hand over: {}, {0}, {1}, {0, 1}, {0, 2}, {1, 2},
\* {2, 4, 6}, {0, ..., 6} and {7}
SetValues == {0, 1, 2, 3, 5, 6, 84, 127, 128}

\* the predicates: those that accept at most two indices, and the one that
\* accepts all
Predicates ==
    { p \in SUBSET (0..MaxIndex) : Cardinality(p) <= 2 } \cup { 0..MaxIndex }

Small(value) == value >= 0 /\ value < 2 ^ SetBits

\* set.traverse(p)
SetTraverse(p) ==
    /\ last.set >= 0
    /\ With(IndexSetTraverse(last.set, p), LAMBDA r :
            last' = [NoCall EXCEPT !.op = "traverse", !.set = last.set, !.val = r.val,
                                   !.arg = <<last.set, p, r.calls>>])
    /\ UNCHANGED <<config, cache, accs, tree, simple, src, qry>>

\* set.merge(s)
SetMerge(s) ==
    /\ Small(last.set)
    /\ last' = [NoCall EXCEPT !.op = "merge", !.set = IndexSetMerge(last.set, s),
                              !.arg = <<last.set, s>>]
    /\ UNCHANGED <<config, cache, accs, tree, simple, src, qry>>

\* set.offset(k)
SetOffset(k) ==
    /\ Small(last.set)
    /\ last' = [NoCall EXCEPT !.op = "offset", !.set = IndexSetOffset(last.set, k),
                              !.arg = <<last.set, k>>]
    /\ UNCHANGED <<config, cache, accs, tree, simple, src, qry>>

\* set.set(i); set.get(i)
SetSetGet(i) ==
    /\ Small(last.set)
    /\ last' = [NoCall EXCEPT !.op = "set_get", !.set = IndexSetSet(last.set, i),
                              !.val = IndexSetGet(IndexSetSet(last.set, i), i),
                              !.arg = <<last.set, i>>]
    /\ UNCHANGED <<config, cache, accs, tree, simple, src, qry>>

InitSet ==
    /\ keyboard = "QUANPIN"
    /\ fuzzy = "none"
    /\ accelerate = FALSE
    /\ build = "release"
    /\ chars = Contexts[keyboard][fuzzy]
    /\ pinyins = LoadedPinyins[keyboard][fuzzy]
    /\ total = Len(Syllables)
    /\ cache = NoCache
    /\ accs = AccsNew
    /\ tree = NoTree
    /\ simple = NoSimple
    /\ src = <<>>
    /\ qry = <<>>
    /\ last \in { [NoCall EXCEPT !.set = v] : v \in SetValues }

NextSet ==
    \/ \E p \in Predicates : SetTraverse(p)
    \/ \E s \in SetValues : SetMerge(s)
    \/ \E k \in 0..MaxIndex : SetOffset(k)
    \/ \E i \in 0..MaxIndex : SetSetGet(i)

SpecSet == InitSet /\ [][NextSet]_vars

\* the members of the value in ascending order, from index i
RECURSIVE Ascending(_, _)
Ascending(value, i) ==
    IF i > WordBits - 2 THEN <<>>
    ELSE (IF HasBit(value, i) THEN <<i>> ELSE <<>>) \o Ascending(value, i + 1)

\* the members up to and with the first the predicate p accepts
RECURSIVE UpToAccepted(_, _, _)
UpToAccepted(members, k, p) ==
    IF k > Len(members) THEN <<>>
    ELSE IF members[k] \in p THEN <<members[k]>>
    ELSE <<members[k]>> \o UpToAccepted(members, k + 1, p)

\* C23: traverse(pred) applies pred to the members in ascending order,
\* stops and returns true at the first member for which pred is true, and
\* returns false when no member satisfies pred, so also for the empty set.
C23_TraverseFindsFirst ==
    last.op = "traverse" =>
        /\ last.val <=> (AllMembers(last.arg[1]) \cap last.arg[2] # {})
        /\ last.arg[3] = UpToAccepted(Ascending(last.arg[1], 0), 1, last.arg[2])

\* C24: merge(other) leaves the receiver the union of both member sets,
\* except that the receiver {0} becomes other (also the empty other);
\* offset(k) maps every member i to i + k; after set(i), get(i) is true and
\* no other member has changed.
C24_MergeOffsetSet ==
    /\ last.op \in {"merge", "offset", "set_get"} => last.set >= 0
    /\ last.op = "merge" =>
          IF last.arg[1] = IndexSetZero THEN last.set = last.arg[2]
          ELSE AllMembers(last.set) = AllMembers(last.arg[1]) \cup AllMembers(last.arg[2])
    /\ last.op = "offset" =>
          AllMembers(last.set) = { i + last.arg[2] : i \in AllMembers(last.arg[1]) }
    /\ last.op = "set_get" =>
          /\ last.val
          /\ AllMembers(last.set) = AllMembers(last.arg[1]) \cup {last.arg[2]}

\* the receiver {0} was merged with the empty set and is empty
C24_Witness ==
    last.op = "merge" /\ last.arg = <<IndexSetZero, IndexSetNone>> /\ last.set = IndexSetNone

(***************************************************************************)
(* The phonemes of a reading, matched one after the other.                 *)
(***************************************************************************)
\* the indices the phoneme ph reaches from the indices A
Reach(ph, A) ==
    IF PhonemeIsEmpty(ph) THEN A
    ELSE UNION { { i + j : j \in AllMembers(PhonemeMatchString(ph, qry, last.start + i,
                                                              last.partial)) } :
                 i \in { a \in A : last.start + a <= Len(qry) } }

RECURSIVE ChainFrom(_, _, _)
\* the indices reached by the phonemes k, k + 1, ... in order, from A
ChainFrom(phonemes, k, A) ==
    IF k > Len(phonemes) THEN {}
    ELSE Reach(phonemes[k], A) \cup ChainFrom(phonemes, k + 1, Reach(phonemes[k], A))

\* the reading of the last Pinyin::match_string
Matched == Readings[last.arg[1]]

\* the bit the rule of the sequence keyboards sets
SequenceBit ==
    IF Matched.sequence /\ PhonemeMatchSequence(Matched.phonemes[1], qry[last.start + 1])
    THEN {1} ELSE {}

ZH1 == <<"z", "h", "1">>

ZONG == <<"z", "o", "n", "g">>

\* C25: in the non-duo Pinyin::match_string, apart from bit 1 of the
\* sequence rule, an index is in the result only if the phonemes 0..k,
\* matched in order, each from an index the one before produced, reach it; a
\* phoneme that yields the empty set ends the chain.  For zhong1 the query
\* "zh1" consumes at most 2 characters and "zong" does not consume 4.
C25_PhonemesInOrder ==
    (PinyinMatched /\ ~Matched.duo) =>
        /\ last.set >= 0
        /\ AllMembers(last.set) \ SequenceBit
             \subseteq ChainFrom(Matched.phonemes, 1, {0})
        /\ (fuzzy = "none" /\ Matched.raw = <<"z", "h", "o", "n", "g", "1">>
              /\ last.start = 0) =>
              /\ qry = ZH1 => AllMembers(last.set) \subseteq 0..2
              /\ qry = ZONG => 4 \notin AllMembers(last.set)

\* zhong1 against "zh1" on the full-pinyin keyboard: {1, 2}
C25_Witness ==
    /\ PinyinMatched /\ keyboard = "QUANPIN" /\ fuzzy = "none"
    /\ Matched.raw = <<"z", "h", "o", "n", "g", "1">>
    /\ qry = ZH1 /\ last.start = 0 /\ last.set = 6

(***************************************************************************)
(* The double-pinyin keyboards.                                            *)
(***************************************************************************)
CEUIWFBF == <<"c", "e", "u", "i", "w", "f", "b", "f">>

CEUIW2 == <<"c", "e", "u", "i", "w", "2">>

\* C26: on a duo keyboard a syllable matches in the middle of the query only
\* when both of its keystrokes match, and its tone only after both: on
\* Xiaohe contains("CE SHI WEN BEN", "ceuiwfbf") is true and
\* contains("CE SHI WEN BEN", "ceuiw2") is false.
C26_DuoBothKeystrokes ==
    (/\ last.op = "contains" /\ ~last.panic /\ keyboard = "XIAOHE"
     /\ src = <<"CE", "SHI", "WEN", "BEN">>) =>
        /\ qry = CEUIWFBF => last.val = TRUE
        /\ qry = CEUIW2 => last.val = FALSE

(***************************************************************************)
(* The partial flag of the accelerator during a search.                    *)
(***************************************************************************)
\* an accelerator on the trie's Compressor whose flag is the one of the
\* logic: partial for Begin and Contain, full for Equal
FlaggedAccelerator ==
    [AcceleratorNew EXCEPT !.provider = CompressorProvider("tree"),
                           !.partial = (tree.logic # "Equal")]

\* what the search of the last query returns when every set is computed
\* with the flag of the logic
FlaggedSearch ==
    With(GetOffset(Sys, tree.logic, tree.nodes,
                   AcceleratorSearch(FlaggedAccelerator, tree.found.query), tree.root, 0),
         LAMBDA r : [ids |-> IF r.panic THEN {} ELSE { tree.objects[i + 1] : i \in r.ids },
                     panic |-> r.panic])

\* C27: within one search the accelerator computes every set with the flag
\* of the logic, partial = false for Equal and partial = true for Begin and
\* Contain, whatever operation used the accelerator last; the result of a
\* search depends only on the inserted names and the query.
C27_PartialFollowsLogic ==
    (tree.made /\ tree.found.valid) =>
        /\ tree.found.panic = FlaggedSearch.panic
        /\ tree.found.ids = FlaggedSearch.ids

(***************************************************************************)
(* What the trie stores: every index with the characters of its path.      *)
(***************************************************************************)
\* the characters of the Compressor from offset pos to the terminator
RestAt(cs, pos) == SubSeq(cs, pos + 1, NameEnd(cs, pos))

RECURSIVE Entries(_, _, _)
\* the pairs <<path, index>> below the node n: the characters on the way
\* to the index, and for an NDense the rest of the name at the stored offset
Entries(nodes, cs, n) ==
    IF nodes[n].kind = "NDense"
    THEN { <<RestAt(cs, nodes[n].data[2 * j - 1]), nodes[n].data[2 * j]>> :
               j \in 1..(Len(nodes[n].data) \div 2) }
    ELSE IF nodes[n].kind = "NSlice"
    THEN { <<SubSeq(cs, nodes[n].start + 1, nodes[n].end) \o e[1], e[2]>> :
               e \in Entries(nodes, cs, nodes[n].exit) }
    ELSE With(IF nodes[n].kind = "NAcc" THEN nodes[n].map ELSE n, LAMBDA m :
             { <<<<>>, id>> : id \in nodes[m].leaves } \cup
             UNION { { << <<c>> \o e[1], e[2]>> :
                           e \in Entries(nodes, cs, ChildrenOf(nodes[m])[c]) } :
                     c \in DOMAIN ChildrenOf(nodes[m]) })

\* the names pushed to the Compressor with the indices of their objects
Inserted ==
    { <<NameOf(tree.compressor, k), k - 1>> : k \in 1..Len(tree.objects) }

\* the trie has gone through a promotion
Reshaped == tree.nodes[tree.root].kind # "NDense"

\* C28: no inserted entry is lost or re-keyed: after any sequence of inserts
\* with logic Begin or Equal, through every promotion, cut and replacement,
\* root.get emits exactly the indices of all inserted objects and each index
\* is stored under the path that spells its name in the Compressor.
C28_EntriesKept ==
    (tree.made /\ tree.logic # "Contain" /\ ~last.panic) =>
        /\ Get(tree.nodes, tree.root) = { k - 1 : k \in 1..Len(tree.objects) }
        /\ Entries(tree.nodes, tree.compressor.chars, tree.root) = Inserted

\* the prefix data set is in: the slice of "ab" was cut by "ac" and "a", and
\* "CE SHI" replaced the emptied slice by its exit, an NMap
C28_Witness ==
    /\ tree.made /\ tree.logic = "Begin" /\ Idle /\ Reshaped
    /\ Len(tree.objects) = Len(LinesPrefix)
    /\ NameOf(tree.compressor, Len(LinesPrefix)) = <<"CE", "SHI">>
    /\ tree.nodes[tree.root].kind = "NMap"
    /\ Entries(tree.nodes, tree.compressor.chars, tree.root) = Inserted

(***************************************************************************)
(* An NAcc against the NMap it wraps.                                      *)
(***************************************************************************)
\* the root of the trie is an NAcc
RootAcc == tree.made /\ tree.nodes[tree.root].kind = "NAcc"

\* the accelerator of a search for the last query, with the flag of the logic
Searching == AcceleratorSearch(FlaggedAccelerator, tree.found.query)

\* what get_offset emits at the node n
Emitted(n, offset) ==
    With(GetOffset(Sys, tree.logic, tree.nodes, Searching, n, offset), LAMBDA r :
        [ids |-> r.ids, panic |-> r.panic])

\* C29: the promotion to NAcc changes the speed only: for every child table,
\* query, offset and logic, NAcc::get_offset emits the ids that
\* NMap::get_offset emits on the wrapped map, also when the query is
\* exhausted at the node and when a child is matched through the first
\* letter of an initial of several letters only.
C29_AccSameAsMap ==
    (RootAcc /\ tree.found.valid) =>
        \A offset \in 0..Len(tree.found.query) :
            Emitted(tree.root, offset) = Emitted(tree.nodes[tree.root].map, offset)

(***************************************************************************)
(* The registry of the NAcc nodes.                                         *)
(***************************************************************************)
RECURSIVE Below(_, _)
\* the handles of the nodes of the trie at and below the node n
Below(nodes, n) ==
    {n} \cup
    IF nodes[n].kind = "NDense" THEN {}
    ELSE IF nodes[n].kind = "NSlice" THEN Below(nodes, nodes[n].exit)
    ELSE IF nodes[n].kind = "NAcc" THEN Below(nodes, nodes[n].map)
    ELSE UNION { Below(nodes, ChildrenOf(nodes[n])[c]) : c \in DOMAIN ChildrenOf(nodes[n]) }

\* the nodes of a kind that are part of the trie
InTrie(kind) == { n \in Below(tree.nodes, tree.root) : tree.nodes[n].kind = kind }

\* C30: the registry of the searcher holds each NAcc of the trie exactly
\* once, one registration for each promotion of an NMap: its length is at
\* most the number of NMap nodes, and an insert that promotes no node, such
\* as a put through an NAcc, does not make it longer.
C30_RegistryExact ==
    tree.made =>
        /\ Len(tree.naccs) = Cardinality(Range(tree.naccs))
        /\ Range(tree.naccs) = InTrie("NAcc")
        /\ Len(tree.naccs) <= Cardinality(InTrie("NMap"))

(***************************************************************************)
(* The index of an NAcc.                                                   *)
(***************************************************************************)
\* the child keys of the map the NAcc n wraps
KeysOf(n) == DOMAIN ChildrenOf(tree.nodes[tree.nodes[n].map])

\* the index of the NAcc n holds every child key under the first phoneme of
\* each of its readings, and nothing but child keys
Indexed(n) ==
    /\ \A c \in KeysOf(n) : \A key \in FirstPhonemes(Sys, c) :
           key \in DOMAIN tree.nodes[n].index /\ c \in tree.nodes[n].index[key]
    /\ \A key \in DOMAIN tree.nodes[n].index : tree.nodes[n].index[key] \subseteq KeysOf(n)

\* TreeSearcher::reset leaves the trie as it is and empties the cache
ResetKeeps ==
    last'.op = "reset" =>
        /\ tree'.root = tree.root
        /\ \A n \in Below(tree.nodes, tree.root) : tree'.nodes[n] = tree.nodes[n]
        /\ tree'.objects = tree.objects
        /\ tree'.compressor = tree.compressor
        /\ accs'[tree.accelerator].cache = <<>>

\* C31: after every put through an NAcc and after TreeSearcher::reset, every
\* child key of the wrapped map is in the bucket of the first phoneme of each
\* of its readings and no bucket holds a char that is not a child key; reset
\* also empties the cache of the accelerator and changes neither the nodes of
\* the trie nor the stored objects.
C31_IndexExact ==
    /\ [](tree.made => \A n \in InTrie("NAcc") : Indexed(n))
    /\ [][ResetKeeps]_vars

\* a reset of the trie of the wide data set: its root NAcc has Han keys that
\* were put through it
C31_Witness ==
    /\ RootAcc /\ last.op = "reset"
    /\ Len(tree.objects) = Len(LinesWide)
    /\ "YUE" \in KeysOf(tree.root)
    /\ \E key \in DOMAIN tree.nodes[tree.root].index :
           "YUE" \in tree.nodes[tree.root].index[key]

(***************************************************************************)
(* SpecStore: one IndexSetStorage, the row of offset 0 of the cache of the *)
(* context's accelerator, under set and get.                               *)
(***************************************************************************)
\* the indices used: the first, the last of the initial vector, and the
\* first and last of the vectors it grows to
StoreIndices == {0, StorageInitLen - 1, StorageInitLen, 2 * StorageInitLen - 1,
                 2 * StorageInitLen}

\* the sets stored: the empty set, {0}, {1, 2}
StoreSets == {IndexSetNone, IndexSetZero, 6}

\* the vector of the storage
StoreData == accs.ctx.cache[1]

\* IndexSetStorage::set(set, index)
StorageSet(set, index) ==
    /\ accs' = [accs EXCEPT !.ctx.cache[1] = IndexSetStorageSet(@, set, index)]
    /\ last' = [NoCall EXCEPT !.op = "storage_set", !.set = set, !.offset = index]
    /\ UNCHANGED <<config, cache, tree, simple, src, qry>>

\* IndexSetStorage::get(index)
StorageGet(index) ==
    /\ last' = [NoCall EXCEPT !.op = "storage_get", !.offset = index,
                              !.set = IndexSetStorageGet(StoreData, index)]
    /\ UNCHANGED <<config, cache, accs, tree, simple, src, qry>>

InitStore ==
    /\ keyboard = "QUANPIN"
    /\ fuzzy = "none"
    /\ accelerate = TRUE
    /\ build = "release"
    /\ chars = Contexts[keyboard][fuzzy]
    /\ pinyins = LoadedPinyins[keyboard][fuzzy]
    /\ total = Len(Syllables)
    /\ cache = NoCache
    /\ accs = [AccsNew EXCEPT !.ctx.cache = <<IndexSetStorageNew>>]
    /\ tree = NoTree
    /\ simple = NoSimple
    /\ src = <<>>
    /\ qry = <<>>
    /\ last = NoCall

NextStore ==
    \/ \E set \in StoreSets, index \in StoreIndices : StorageSet(set, index)
    \/ \E index \in StoreIndices \cup {4 * StorageInitLen} : StorageGet(index)

SpecStore == InitStore /\ [][NextStore]_vars

RECURSIVE PowerOfTwoFrom(_, _)
\* the least power of two that is at least n, from the power p
PowerOfTwoFrom(p, n) == IF p >= n THEN p ELSE PowerOfTwoFrom(2 * p, n)

\* the indices looked at: those of the vector before and after the step,
\* and some beyond
Slots == 0..(4 * StorageInitLen)

\* a set stores the set at its index and changes no other entry; a vector
\* too short grows to the next power of two
SetStores ==
    last'.op = "storage_set" =>
        /\ \A j \in Slots :
              IndexSetStorageGet(StoreData', j) =
                  IF j = last'.offset THEN last'.set ELSE IndexSetStorageGet(StoreData, j)
        /\ Len(StoreData') = IF last'.offset >= Len(StoreData)
                             THEN PowerOfTwoFrom(1, last'.offset + 1)
                             ELSE Len(StoreData)
        /\ \A j \in 1..Len(StoreData) : j # last'.offset + 1 => StoreData'[j] = StoreData[j]

\* a get returns the entry and changes nothing
GetReads ==
    last'.op = "storage_get" =>
        /\ last'.set = IndexSetStorageGet(StoreData, last'.offset)
        /\ StoreData' = StoreData

\* C32: after any sequence of set calls, get(i) returns the set last stored
\* at i for every set that is not the null sentinel, the empty set included,
\* and the null sentinel for an index never set, inside or beyond the
\* vector; a set at an index at or above the length grows the vector to the
\* next power of two of at least index + 1 and changes no other entry.
C32_StorageRoundTrip ==
    /\ \A j \in Slots : IndexSetStorageGet(StoreData, j) = IndexSetNull
    /\ [][SetStores /\ GetReads]_vars

\* the empty set was stored beyond the initial vector and is read back from
\* the grown vector; the index before it was never set
C32_Witness ==
    /\ last.op = "storage_get" /\ last.offset = StorageInitLen
    /\ last.set = IndexSetNone
    /\ Len(StoreData) = 2 * StorageInitLen
    /\ IndexSetStorageGet(StoreData, StorageInitLen - 1) = IndexSetNull

(***************************************************************************)
(* The phonemes of the Pinyin objects of the context.                      *)
(***************************************************************************)
\* the phoneme of the tone digit of the raw syllable
TonePhoneme(raw) ==
    PhonemeNew(SubSeq(raw, Len(raw), Len(raw)), FuzzyChoices[fuzzy], Keyboards[keyboard])

\* C33: every Pinyin built for any keyboard has 2 or 3 phonemes and its last
\* phoneme is the keystroke spelling of the tone digit of the syllable, also
\* for a syllable without initial on the duo keyboards, where zero_cutter
\* splits the finale.
C33_ToneIsLast ==
    \A raw \in DOMAIN pinyins :
        /\ Len(pinyins[raw].phonemes) \in {2, 3}
        /\ pinyins[raw].phonemes[Len(pinyins[raw].phonemes)] = TonePhoneme(raw)

(***************************************************************************)
(* SpecCut: the cutters and Keyboard::split on one syllable, Phoneme::new   *)
(* on one spelling, and PinIn::contains on a word of two characters whose  *)
(* readings have no initial and a final in ng.                             *)
(***************************************************************************)
\* syllables of two graphemes and more: with and without initial, with an
\* initial of two letters, with and without finale
CutSyllables ==
    { <<"a", "1">>, <<"m", "2">>, <<"a", "n", "1">>, <<"s", "h", "4">>,
      <<"n", "g", "2">>, <<"h", "m", "5">>, <<"e", "r", "2">>, <<"c", "e", "4">>,
      <<"a", "n", "g", "2">>, <<"s", "h", "i", "2">>, <<"l", "v", "e", "4">>,
      <<"y", "u", "e", "4">>, <<"z", "h", "o", "n", "g", "1">>,
      <<"z", "h", "u", "a", "n", "g", "1">> }

\* standard_cutter(qry)
StandardCut ==
    /\ src = <<>>
    /\ last' = [NoCall EXCEPT !.op = "standard_cutter", !.arg = StandardCutter(qry)]
    /\ UNCHANGED <<config, cache, accs, tree, simple, src, qry>>

\* zero_cutter(qry)
ZeroCut ==
    /\ src = <<>>
    /\ last' = [NoCall EXCEPT !.op = "zero_cutter", !.arg = ZeroCutter(qry)]
    /\ UNCHANGED <<config, cache, accs, tree, simple, src, qry>>

\* keyboard.split(qry)
Split ==
    /\ src = <<>>
    /\ last' = [NoCall EXCEPT !.op = "split", !.arg = KeyboardSplit(Keyboards[keyboard], qry)]
    /\ UNCHANGED <<config, cache, accs, tree, simple, src, qry>>

ANYANG == <<"a", "n", "y", "a", "n", "g">>

ANGYANG == <<"a", "n", "g", "y", "a", "n", "g">>

\* the spellings Phoneme::new is given: the initials and finals that the
\* fuzzy settings expand, and others
FuzzyStrings ==
    { <<"z">>, <<"z", "h">>, <<"c">>, <<"c", "h">>, <<"s">>, <<"s", "h">>,
      <<"a", "n">>, <<"a", "n", "g">>, <<"e", "n">>, <<"e", "n", "g">>,
      <<"i", "n">>, <<"i", "n", "g">>, <<"u", "a", "n">>, <<"u", "a", "n", "g">>,
      <<"v">>, <<"v", "e">>, <<"v", "a", "n">>, <<"b">>, <<"e">>, <<"4">> }

InitCut ==
    /\ keyboard \in KeyboardNames
    /\ fuzzy \in DOMAIN FuzzyChoices
    /\ accelerate = FALSE
    /\ build = "release"
    /\ chars = Contexts[keyboard][fuzzy]
    /\ pinyins = LoadedPinyins[keyboard][fuzzy]
    /\ total = Len(Syllables)
    /\ cache = NoCache
    /\ accs = AccsNew
    /\ tree = NoTree
    /\ simple = NoSimple
    /\ \/ src = <<>> /\ qry \in CutSyllables
       \/ src = <<"ANG", "YANG">> /\ qry \in {ANYANG, ANGYANG}
    /\ last = NoCall

NextCut ==
    \/ StandardCut
    \/ ZeroCut
    \/ Split
    \/ \E s \in FuzzyStrings : NewPhoneme(s)
    \/ src # <<>> /\ Contains(src, qry)

SpecCut == InitCut /\ [][NextCut]_vars

RECURSIVE Concat(_)
\* the concatenation of the parts
Concat(parts) == IF parts = <<>> THEN <<>> ELSE Head(parts) \o Concat(Tail(parts))

\* the length of the initial of the syllable s
InitialLength(s) ==
    IF s[1] \in {"a", "e", "i", "o", "u", "v"} THEN 0
    ELSE IF s[2] = "h" /\ Len(s) > 2 THEN 2
    ELSE 1

\* C34: for a syllable s of at least two graphemes standard_cutter returns
\* the parts initial, finale, tone, whose concatenation is s: the initial is
\* there iff the first char is none of a, e, i, o, u, v and has two chars
\* exactly when the second char is h and s has more than two graphemes; the
\* finale is what lies between the initial and the last grapheme and is left
\* out when empty; the tone is the last grapheme.
C34_StandardCutterParts ==
    last.op = "standard_cutter" =>
        /\ Concat(last.arg) = qry
        /\ \A i \in 1..Len(last.arg) : last.arg[i] # <<>>
        /\ last.arg[Len(last.arg)] = <<qry[Len(qry)]>>
        /\ Len(last.arg) = (IF InitialLength(qry) > 0 THEN 1 ELSE 0)
                             + (IF Len(qry) - 1 > InitialLength(qry) THEN 1 ELSE 0) + 1
        /\ InitialLength(qry) > 0 => Len(last.arg[1]) = InitialLength(qry)

\* zhong1 is cut into zh, ong, 1
C34_Witness ==
    /\ last.op = "standard_cutter"
    /\ qry = <<"z", "h", "o", "n", "g", "1">>
    /\ last.arg = << <<"z", "h">>, <<"o", "n", "g">>, <<"1">> >>

(***************************************************************************)
(* The alternatives of a phoneme under the fuzzy settings.                 *)
(***************************************************************************)
\* the keystrokes of the spelling x on the active keyboard
Keyed(x) == KeyboardKeys(Keyboards[keyboard], x)

\* the alternatives of the phoneme Phoneme::new made last
Alternatives == Range(last.made.strings)

\* the alternatives of the phoneme made from the spelling x
AlternativesOf(x) ==
    Range(PhonemeNew(x, FuzzyChoices[fuzzy], Keyboards[keyboard]).strings)

\* the initials that have a short and a long form
ShortInitials == { <<"z">>, <<"c">>, <<"s">> }

\* the finals that have a form with and without g
ShortFinals == { <<"a", "n">>, <<"e", "n">>, <<"i", "n">> }

\* the phoneme made from s, one of the forms short and long, has both as
\* its alternatives, as has the phoneme made from the other form
BothForms(s, short, long) ==
    s \in {short, long} =>
        /\ Alternatives = {Keyed(short), Keyed(long)}
        /\ AlternativesOf(short) = AlternativesOf(long)

\* C35: the fuzzy expansion is symmetric and off by default: with every flag
\* false Phoneme::new(s) has the single alternative keys(s); with zh2z, sh2s,
\* ch2c set the phonemes of the short and of the long initial have the same
\* alternatives, short and long; with ang2an, eng2en, ing2in set the phonemes
\* of X + g and of X have the same alternatives; with u2v set a phoneme that
\* starts with v has the alternative with u in its place.  With fuzzy off
\* contains("ANG YANG", "anyang") is false and contains(.., "angyang") true.
C35_FuzzySymmetric ==
    /\ (last.op = "phoneme_new" /\ fuzzy = "none") =>
          /\ last.made.single
          /\ last.made.strings = <<Keyed(last.arg[1])>>
    /\ (last.op = "phoneme_new" /\ fuzzy = "all") =>
          /\ \A x \in ShortInitials : BothForms(last.arg[1], x, Append(x, "h"))
          /\ \A x \in ShortFinals : BothForms(last.arg[1], x, Append(x, "g"))
          /\ last.arg[1][1] = "v" => Keyed(<<"u">> \o Tail(last.arg[1])) \in Alternatives
    /\ (/\ last.op = "contains" /\ fuzzy = "none" /\ keyboard = "QUANPIN"
        /\ src = <<"ANG", "YANG">>) =>
          /\ qry = ANYANG => last.val = FALSE
          /\ qry = ANGYANG => last.val = TRUE

(***************************************************************************)
(* Cache (cache.rs): a RefCell<HashMap<K, V>> filled on demand by a        *)
(* generator.                                                              *)
(***************************************************************************)
CacheKeys == {"k1", "k2", "k3", "k4"}

CacheValues == {"v1", "v2"}

\* the functions a Cache can be given: Fn(&K) -> Option<V>
Generators == [CacheKeys -> {None} \cup {Some(v) : v \in CacheValues}]

\* Cache::get.  `self.data.borrow()` is a temporary of the whole expression
\* `self.data.borrow().get(key).cloned().or_else(..)`: its Ref is dropped
\* after or_else has returned, so the closure runs with one read borrow
\* held, and RefCell::borrow_mut panics (BorrowMutError) while any borrow
\* is held, in every build.
CacheGet(c, key) ==
    LET held == 1
        found == IF key \in DOMAIN c.data THEN Some(c.data[key]) ELSE None
    IN  IF found # None
        THEN [ret |-> found, data |-> c.data, panic |-> FALSE, generated |-> 0]
        ELSE LET value == c.generator[key]
             IN  IF value = None
                 THEN [ret |-> None, data |-> c.data, panic |-> FALSE, generated |-> 1]
                 ELSE IF held > 0
                      THEN [ret |-> None, data |-> c.data, panic |-> TRUE,
                            generated |-> 1]
                      ELSE [ret |-> value, data |-> (key :> value[1]) @@ c.data,
                            panic |-> FALSE, generated |-> 1]

\* a call of Cache::get; a panic ends the thread that owns the Cache
CacheGetCall(key) ==
    /\ ~last.panic
    /\ With(CacheGet(cache, key), LAMBDA r :
            /\ cache' = [cache EXCEPT !.data = r.data]
            /\ last' = [NoCall EXCEPT !.op = "cache_get", !.panic = r.panic,
                                      !.arg = <<key, r.ret>>,
                                      !.offset = r.generated])
    /\ UNCHANGED <<config, accs, tree, simple, src, qry>>

InitCache ==
    /\ keyboard = "QUANPIN"
    /\ fuzzy = "none"
    /\ accelerate = FALSE
    /\ build \in {"debug", "release"}
    /\ chars = <<>>
    /\ pinyins = <<>>
    /\ total = 0
    /\ cache \in {CacheNew(g) : g \in Generators}
    /\ accs = AccsNew
    /\ tree = NoTree
    /\ simple = NoSimple
    /\ src = <<>>
    /\ qry = <<>>
    /\ last = NoCall

NextCache == \E key \in CacheKeys : CacheGetCall(key)

SpecCache == InitCache /\ [][NextCache]_vars

\* one call of get behaves as claimed
GetAsClaimed ==
    last'.op = "cache_get" =>
        LET key == last'.arg[1]
            ret == last'.arg[2]
            value == cache.generator[key]
        IN  /\ ~last'.panic
            /\ IF key \in DOMAIN cache.data
               THEN /\ last'.offset = 0
                    /\ ret = Some(cache.data[key])
                    /\ cache'.data = cache.data
               ELSE /\ last'.offset = 1
                    /\ ret = value
                    /\ IF value = None
                       THEN cache'.data = cache.data
                       ELSE cache'.data = (key :> value[1]) @@ cache.data

\* C36: get on a key not yet stored invokes the generator once; with Some(v)
\* it stores v under the key and returns Some(v) without failing, and later
\* gets of the key return v without calling the generator; with None nothing
\* is stored and None is returned.
C36_GetStoresGenerated == [][GetAsClaimed]_vars

====
